---------------------------- MODULE Spec2Model ----------------------------
(***************************************************************************)
(* A model of asymmetricfs: the page buffer (page_buffer.cpp), the         *)
(* open-file state (asymmetricfs::internal) and the filesystem object      *)
(* (asymmetricfs) with its two handle tables, over a small backing store.  *)
(*                                                                         *)
(* Ciphertext is modelled as a sequence of cells: an armored block for the *)
(* plaintext P is <<BEGIN>> \o P \o <<END>>, END standing for the          *)
(* terminator line "-----END PGP MESSAGE-----\n".                          *)
(***************************************************************************)
EXTENDS Integers, Sequences, FiniteSets, TLC

(***************************************************************************)
(* Bounds of the model.                                                    *)
(***************************************************************************)
\* highest offset + length a write or truncate may reach
MaxSize == 4
\* number of handles next_fd() may hand out
MaxHandles == 2
\* distinct non-zero byte values a write may store
MaxByte == 1

\* page_size_, sysconf(_SC_PAGESIZE): two bytes per page in the model
PageSize == 2

Paths == {"/a", "/b"}
Bytes == 1..MaxByte

\* the cells of an armored block: its header line and its terminator line
BEGIN == 101
END == 102
\* a byte of a hole of the backing file, and a byte read out of bounds
HOLE == 103
GARBAGE == 9

NoHandle == -1
NoInode == 0

Min2(a, b) == IF a < b THEN a ELSE b
Max2(a, b) == IF a > b THEN a ELSE b
MinOf(S) == CHOOSE x \in S : \A y \in S : x <= y
MaxOf(S) == CHOOSE x \in S : \A y \in S : x >= y
Zeros(n) == [i \in 1..n |-> 0]
Fill(n, b) == [i \in 1..n |-> b]

RECURSIVE SortedSeq(_)
SortedSeq(S) == IF S = {} THEN <<>> ELSE <<MinOf(S)>> \o SortedSeq(S \ {MinOf(S)})

(***************************************************************************)
(* page_buffer: allocs maps a base offset to the bytes of its allocation,  *)
(* size is buffer_size_.                                                   *)
(***************************************************************************)
round_down_to_page(sz) == sz - (sz % PageSize)
round_up_to_page(sz) == round_down_to_page(sz + PageSize - 1)
is_page_multiple(n) == round_down_to_page(n) = n

EmptyMap == [k \in {} |-> <<>>]
EmptyBuffer == [allocs |-> EmptyMap, size |-> 0]

\* find_block: the key of the allocation the scan of read starts at, or -1 for end()
find_block(m, key) ==
    IF DOMAIN m = {} THEN -1
    ELSE LET ge == {k \in DOMAIN m : k >= key}
             lt == {k \in DOMAIN m : k < key}
         IN  IF ge # {} /\ MinOf(ge) <= key THEN MinOf(ge)
             ELSE IF ge # {} /\ lt = {} THEN MinOf(ge)
             ELSE MaxOf(lt)

\* the loop of page_buffer::read over the allocations from index i of ks on
RECURSIVE read_loop(_, _, _, _, _, _, _)
read_loop(m, ks, n, offset, i, position, out) ==
    IF i > Len(ks) \/ ~(ks[i] < n + offset)
    THEN out \o Zeros(n - position)
    ELSE LET k    == ks[i]
             gap  == IF k > position + offset THEN k - position - offset ELSE 0
             pos1 == position + gap
             out1 == out \o Zeros(gap)
             io   == pos1 + offset - k
         IN  IF io > Len(m[k])
             THEN read_loop(m, ks, n, offset, i + 1, pos1, out1)
             ELSE LET il == Min2(Len(m[k]) - io, n - pos1)
                  IN  read_loop(m, ks, n, offset, i + 1, pos1 + il,
                                out1 \o SubSeq(m[k], io + 1, io + il))

\* "Shrink request to what we can handle."
shrink_request_none(size, n0, offset) == n0

shrink_request(size, n0, offset) ==
    IF offset < size THEN Min2(n0, size - offset) ELSE 0

\* page_buffer::read: the bytes delivered to the destination
PBRead(pb, n0, offset) ==
    LET n     == shrink_request(pb.size, n0, offset)
        start == find_block(pb.allocs, round_down_to_page(offset))
        ks    == SortedSeq({k \in DOMAIN pb.allocs : k >= start})
    IN  IF start = -1 THEN Zeros(n)
        ELSE read_loop(pb.allocs, ks, n, offset, 1, 0, <<>>)

\* more than any sequence of calls maps
Unlimited == 64 * (MaxSize + PageSize)

\* ptr_ == MAP_FAILED in page_allocation::page_allocation
mmap_fails_never(sz, lockable) == FALSE

mmap_fails(sz, lockable) == sz > lockable

\* the copy loop of page_buffer::write; hang: the loop stopped making progress
\* (an iteration copying zero bytes), asserted: one of its assert()s failed
\* lockable: the bytes mmap can still map (RLIMIT_MEMLOCK under MAP_LOCKED);
\* thrown: page_allocation's constructor threw std::bad_alloc
RECURSIVE write_loop(_, _, _, _, _, _, _, _)
write_loop(m, size, n, offset, data, position, asserted, lockable) ==
    IF position >= n
    THEN [allocs |-> m, size |-> size, hang |-> FALSE, asserted |-> asserted,
          thrown |-> FALSE]
    ELSE LET base  == round_down_to_page(offset)
             found == base \in DOMAIN m
             later == {k \in DOMAIN m : k > base}
             end   == IF later = {} THEN round_up_to_page(base + n - position)
                      ELSE MinOf(later)
             a2    == found \/ (end - base < n - position + PageSize)
             m1    == IF found THEN m ELSE (base :> Zeros(end - base)) @@ m
             io    == offset + position - base
             il    == Min2(Len(m1[base]) - io, n - position)
         IN  IF ~found /\ mmap_fails(end - base, lockable)
             THEN [allocs |-> m, size |-> size, hang |-> FALSE,
                   asserted |-> asserted \/ ~a2, thrown |-> TRUE]
             ELSE IF io >= Len(m1[base])
             THEN [allocs |-> m1, size |-> size, hang |-> TRUE, asserted |-> TRUE,
                   thrown |-> FALSE]
             ELSE write_loop(
                    [m1 EXCEPT ![base] =
                        [j \in 1..Len(m1[base]) |->
                            IF j > io /\ j <= io + il THEN data[position + j - io]
                            ELSE m1[base][j]]],
                    Max2(size, offset + position + il), n, offset, data,
                    position + il, asserted \/ ~a2,
                    IF found THEN lockable ELSE lockable - (end - base))

\* page_buffer::write
PBWrite(pb, n, offset, data) ==
    write_loop(pb.allocs, pb.size, n, offset, data, 0, FALSE, Unlimited)

\* page_buffer::write when mmap grants at most lockable bytes
PBWriteLimited(pb, n, offset, data, lockable) ==
    write_loop(pb.allocs, pb.size, n, offset, data, 0, FALSE, lockable)

\* page_buffer::resize
PBResize(pb, n) ==
    [allocs |-> IF pb.size > n
                THEN [k \in {x \in DOMAIN pb.allocs : x < n} |-> pb.allocs[k]]
                ELSE pb.allocs,
     size |-> n]

\* page_buffer::clear
PBClear(pb) == EmptyBuffer

\* the inner loop of page_buffer::splice: gathers contiguous allocations
RECURSIVE splice_inner(_, _, _, _, _, _, _)
splice_inner(m, ks, lwp, i, position, out, asserted) ==
    IF i > Len(ks) \/ position < ks[i]
    THEN [i |-> i, position |-> position, out |-> out, asserted |-> asserted]
    ELSE LET as == asserted \/ position > ks[i]
             internal_size == Min2(Len(m[ks[i]]), lwp - position)
         IN  IF internal_size = 0
             THEN [i |-> i, position |-> position, out |-> out, asserted |-> as]
             ELSE IF position + internal_size = lwp
             THEN [i |-> i, position |-> lwp,
                   out |-> out \o SubSeq(m[ks[i]], 1, internal_size), asserted |-> as]
             ELSE splice_inner(m, ks, lwp, i + 1, position + internal_size,
                               out \o SubSeq(m[ks[i]], 1, internal_size), as)

\* the outer loop of page_buffer::splice: fills the gap before an allocation
RECURSIVE splice_outer(_, _, _, _, _, _, _)
splice_outer(m, ks, lwp, i, position, out, asserted) ==
    IF ~(position < lwp /\ i <= Len(ks))
    THEN [i |-> i, position |-> position, out |-> out, asserted |-> asserted]
    ELSE LET gap == IF position < ks[i] THEN ks[i] - position ELSE 0
             Flushed(r) == splice_outer(m, ks, lwp, r.i, r.position, r.out,
                                        r.asserted)
         IN  Flushed(splice_inner(m, ks, lwp, i, position + gap, out \o Zeros(gap),
                                  asserted \/ ~is_page_multiple(gap)))

\* page_buffer::splice: out is what reaches fd; ub: the tail is read through
\* end() or outside its allocation
PBSplice(pb) ==
    LET lwp == round_down_to_page(pb.size)
        ks  == SortedSeq(DOMAIN pb.allocs)
        tl  == pb.size - lwp
        \* r: where the loops over the whole pages stopped
        Spliced(r) ==
            LET z  == IF r.position < lwp
                      THEN [position |-> r.position + lwp, out |-> r.out \o Zeros(lwp)]
                      ELSE [position |-> r.position, out |-> r.out]
                i2 == IF r.i <= Len(ks) /\ lwp = ks[r.i] + Len(pb.allocs[ks[r.i]])
                      THEN r.i + 1 ELSE r.i
            IN  IF ~(lwp < pb.size)
                THEN [out |-> z.out, ret |-> z.position, ub |-> FALSE,
                      asserted |-> r.asserted]
                ELSE IF i2 > Len(ks) \/ ks[i2] > lwp
                          \/ lwp - ks[i2] + tl > Len(pb.allocs[ks[i2]])
                THEN [out |-> z.out, ret |-> z.position + tl, ub |-> TRUE,
                      asserted |-> TRUE]
                ELSE [out |-> z.out \o SubSeq(pb.allocs[ks[i2]], lwp - ks[i2] + 1,
                                              lwp - ks[i2] + tl),
                      ret |-> z.position + tl, ub |-> FALSE, asserted |-> r.asserted]
    IN  Spliced(splice_outer(pb.allocs, ks, lwp, 1, 0, <<>>, FALSE))

(***************************************************************************)
(* The backing store and the external tool.                                *)
(***************************************************************************)
\* references one state may accumulate
MaxRefs == 2
\* inodes of the backing store: one per directory entry and per descriptor
Inodes == 1..(Cardinality(Paths) + MaxHandles)

\* uids and gids: root, and the user of the tests
Root == 0
User == 1000
\* 0600, the mode the tests create their files with
NewFileMode == 384

\* threads that may be inside create at once
MaxThreads == 2
Threads == 1..MaxThreads

\* errno values
EPERM == 1
ENOENT == 2
EIO == 5
EBADF == 9
EACCES == 13
EEXIST == 17
EINVAL == 22

\* sizeof(terminator) - 1, in cells
terminator_size == 1

VARIABLES
    read_,        \* asymmetricfs::read_: TRUE in read-write mode
    dir,          \* backing directory: path -> inode, NoInode when absent
    inodes,       \* backing files: inode -> ciphertext cells
    next_,        \* asymmetricfs::next_
    open_paths_,  \* asymmetricfs::open_paths_: path -> handle
    open_fds_,    \* asymmetricfs::open_fds_: handle -> internal
    last,         \* the operation that ran last, with what it returned
    halted,       \* "no", or how the process stopped: "hang" or "crash"
    asserted,     \* an assert() of the source has failed (compiled out under NDEBUG)
    hist,         \* history: handle -> how its state was registered (by), the bytes
                  \* write stored, by offset (0: none), and whether it was truncated
    sealed,       \* history: inode -> the plaintext a created file was written with
                  \* and flushed, <<>> when none or once the file changed again
    track,        \* whether this run keeps the histories hist and sealed
    live,         \* history: successful create/open calls minus effective releases
    pending,      \* thread -> the create call it is in, between its openat and mx_
    meta,         \* backing files: inode -> permission bits and owner
    euid,         \* the user the filesystem process runs as
    pb,           \* a page_buffer on its own
    flat,         \* the flat zero-initialised byte array pb is compared with
    fdt,          \* the process's descriptor table: descriptor -> kind, close-on-exec
    child,        \* the descriptors the last child had open when it called exec
    recipients_,  \* asymmetricfs::recipients_
    open_dirs_,   \* asymmetricfs::open_dirs_, as the set of its keys
    section,      \* thread -> the handler in which it is using a handle table or
                  \* a state right now, and whether it holds mx_
    sub           \* a subprocess object, its pipes and its child

vars == <<read_, dir, inodes, next_, open_paths_, open_fds_, last, halted,
          asserted, hist, sealed, track, live, pending, meta, euid, pb, flat,
          fdt, child, recipients_, open_dirs_, section, sub>>

\* the process around the filesystem object
fdvars == <<fdt, child>>
cfgvars == <<recipients_, open_dirs_, section, sub>>
envvars == <<fdvars, cfgvars>>

\* gpg --encrypt --armor: one armored block
Encrypt(P) == <<BEGIN>> \o P \o <<END>>

\* gpg --decrypt of what it finds on stdin: exit status 0 and the plaintext, or a
\* non-zero exit status
Decrypt(c) ==
    IF Len(c) >= 2 /\ c[1] = BEGIN /\ c[Len(c)] = END
       /\ \A j \in 2..(Len(c) - 1) : c[j] < BEGIN
    THEN [ok |-> TRUE, out |-> SubSeq(c, 2, Len(c) - 1)]
    ELSE [ok |-> FALSE, out |-> <<>>]

\* write(2) of data on a descriptor of a backing file
FileWrite(content, fd, data) ==
    LET p == IF fd.append THEN Len(content) ELSE fd.pos
        padded == IF p > Len(content)
                  THEN content \o Fill(p - Len(content), HOLE) ELSE content
    IN  [content |-> SubSeq(padded, 1, p) \o data
                     \o SubSeq(padded, p + Len(data) + 1, Len(padded)),
         pos |-> p + Len(data)]

\* inodes no directory entry and no descriptor refers to
Referenced(d, fds) ==
    {d[p] : p \in Paths} \cup {fds[h].fd.ino : h \in DOMAIN fds}
        \cup {pending[t].ino : t \in DOMAIN pending}
\* the kernel frees the storage of an inode nothing refers to
Reclaim(ino, d, fds) ==
    [i \in Inodes |-> IF i \in Referenced(d, fds) THEN ino[i] ELSE <<>>]

\* openat(root_, relpath, flags): err, or a descriptor on the (new) inode
\* ---- permissions and ownership of the backing entries ----
R_OK == 4
W_OK == 2
X_OK == 1

\* bit b (a power of two) is set in the mask m
HasBit(m, b) == (m \div b) % 2 = 1

\* the permission digit of mode that applies to the calling process: the
\* owner's when it owns the entry, else the group's when the entry's group is
\* the process's own, else the others'
ClassDigit(md) ==
    IF md.uid = euid THEN (md.mode \div 64) % 8
    ELSE IF md.gid = euid THEN (md.mode \div 8) % 8
    ELSE md.mode % 8

\* ::faccessat(root_, relpath, mode, 0): 0 or the errno
faccessat(path, am) ==
    IF dir[path] = NoInode THEN ENOENT
    ELSE LET md == meta[dir[path]]
             anyx == \E d \in {1, 8, 64} : HasBit(md.mode, d)
         IN  IF euid = Root
             THEN IF HasBit(am, X_OK) /\ ~anyx THEN EACCES ELSE 0
             ELSE IF \A b \in {R_OK, W_OK, X_OK} :
                        HasBit(am, b) => HasBit(ClassDigit(md), b)
             THEN 0 ELSE EACCES

\* the access an open with access mode acc asks of an existing entry
OpenBits(fl) ==
    (IF fl.acc # "WRONLY" THEN R_OK ELSE 0)
       + (IF fl.acc # "RDONLY" \/ fl.trunc THEN W_OK ELSE 0)

Openat(path, fl) ==
    IF dir[path] = NoInode
    THEN IF ~fl.creat THEN [err |-> ENOENT]
         ELSE LET free == Inodes \ Referenced(dir, open_fds_)
              IN  [err |-> 0, ino |-> MinOf(free), created |-> TRUE,
                        content |-> <<>>]
    ELSE IF fl.creat /\ fl.excl THEN [err |-> EEXIST]
    ELSE IF faccessat(path, OpenBits(fl)) # 0 THEN [err |-> EACCES]
    ELSE [err |-> 0, ino |-> dir[path], created |-> FALSE,
          content |-> IF fl.trunc /\ fl.acc # "RDONLY" THEN <<>>
                      ELSE inodes[dir[path]]]

\* asymmetricfs::make_rdwr: flags & O_RDONLY is always 0, so read-write mode
\* always asks for O_RDWR
make_rdwr(fl) == IF ~read_ THEN fl ELSE [fl EXCEPT !.acc = "RDWR"]

\* the condition under which create repeats its openat: info->flags & O_WRONLY
create_retries(fl) == fl.acc = "WRONLY"

\* the condition under which open repeats its openat: !(for_writing)
open_retries(fl) == fl.acc = "RDONLY"

\* the do { } while (0) of create and open: openat with make_rdwr(flags) and,
\* after EACCES in read-write mode when the handler's condition holds, openat
\* with the flags as they are; fl is what the descriptor was opened with
openat_retry(path, fl, retry) ==
    LET first == Openat(path, make_rdwr(fl))
    IN  IF first.err = 0 THEN [fl |-> make_rdwr(fl)] @@ first
        ELSE IF read_ /\ retry /\ first.err = EACCES
        THEN [fl |-> fl] @@ Openat(path, fl)
        ELSE first

\* asymmetricfs::internal::internal
NewInternal(fd, flags, path) ==
    [fd |-> fd, flags |-> flags, references |-> 0, path |-> path,
     buffer_set |-> FALSE, dirty |-> FALSE, buffer |-> EmptyBuffer]

\* the block loop of internal::load_buffer, from offset on; pos is the position
\* of the backing descriptor, loads the number of decryptors started
RECURSIVE load_loop(_, _, _, _, _)
load_loop(content, pos, buffer, offset, loads) ==
    LET fd_size == Len(content)
        ends == {j \in (offset + 1)..fd_size : content[j] = END}
        new_offset == IF ends # {} THEN MinOf(ends)
                      ELSE fd_size - terminator_size + 1
        single == offset = 0 /\ new_offset = fd_size
        input == IF single THEN SubSeq(content, pos + 1, fd_size)
                 ELSE SubSeq(content, offset + 1, new_offset)
        pos1 == IF single THEN Max2(pos, fd_size) ELSE pos
        \* d: what the decryptor gave, w: the buffer after its output is stored
        Stored(d, w) ==
            LET buffer1 == [allocs |-> w.allocs, size |-> w.size]
                Rest(r) == [r EXCEPT !.asserted = r.asserted \/ w.asserted]
            IN  IF w.hang
                THEN [buffer |-> buffer1, pos |-> pos1, buffer_set |-> TRUE,
                      ret |-> 0, hang |-> TRUE, asserted |-> TRUE,
                      loads |-> loads + 1]
                ELSE IF ~d.ok
                THEN [buffer |-> buffer1, pos |-> pos1, buffer_set |-> FALSE,
                      ret |-> EIO, hang |-> FALSE, asserted |-> w.asserted,
                      loads |-> loads + 1]
                ELSE Rest(load_loop(content, pos1, buffer1, new_offset, loads + 1))
        Decrypted(d) ==
            Stored(d, IF Len(d.out) = 0
                      THEN [allocs |-> buffer.allocs, size |-> buffer.size,
                            hang |-> FALSE, asserted |-> FALSE]
                      ELSE PBWrite(buffer, Len(d.out), buffer.size, d.out))
    IN  IF ~(offset < fd_size) \/ (~single /\ new_offset = offset)
        THEN [buffer |-> buffer, pos |-> pos, buffer_set |-> TRUE, ret |-> 0,
              hang |-> FALSE, asserted |-> FALSE, loads |-> loads]
        ELSE Decrypted(Decrypt(input))

\* internal::load_buffer on state st whose backing file holds content: the new
\* state, the (positive) error code, and whether a write into the buffer hung
load_buffer(st, content) ==
    IF st.buffer_set
    THEN [st |-> st, ret |-> 0, hang |-> FALSE, asserted |-> FALSE, loads |-> 0]
    ELSE IF Len(content) <= 0
    THEN [st |-> [st EXCEPT !.dirty = FALSE, !.buffer = PBClear(st.buffer),
                            !.buffer_set = TRUE],
          ret |-> 0, hang |-> FALSE, asserted |-> FALSE, loads |-> 0]
    ELSE LET Loaded(r) ==
                 [st |-> [st EXCEPT !.dirty = FALSE, !.buffer = r.buffer,
                                    !.buffer_set = r.buffer_set, !.fd.pos = r.pos],
                  ret |-> r.ret, hang |-> r.hang, asserted |-> r.asserted,
                  loads |-> r.loads]
         IN  Loaded(load_loop(content, st.fd.pos, PBClear(st.buffer), 0, 0))

\* internal::close of state st whose backing file holds content: the encryptor
\* runs if the state is dirty and exits 0 iff tool_ok and the descriptor is
\* writable
\* junk is the byte an out-of-bounds read of the tail yields
close(st, content, tool_ok, junk) ==
    IF ~st.dirty
    THEN [ret |-> 0, content |-> content, ran |-> FALSE, exit0 |-> FALSE,
          plain |-> <<>>, ub |-> FALSE, asserted |-> FALSE]
    ELSE LET ok == tool_ok /\ st.fd.wr
             \* sp: what buffer.splice fed to the encryptor
             Spliced(sp) ==
                 LET plain == IF sp.ub
                              THEN sp.out \o Fill(st.buffer.size
                                         - round_down_to_page(st.buffer.size), junk)
                              ELSE sp.out
                 IN  [ret |-> IF ok THEN 0 ELSE -EIO,
                      content |-> IF ok
                                  THEN FileWrite(content, st.fd, Encrypt(plain)).content
                                  ELSE content,
                      ran |-> TRUE, exit0 |-> ok, plain |-> plain, ub |-> sp.ub,
                      asserted |-> sp.asserted]
         IN  Spliced(PBSplice(st.buffer))

(***************************************************************************)
(* The filesystem object.                                                  *)
(***************************************************************************)
Handles == 0..(MaxHandles - 1)
AccessModes == {"RDONLY", "WRONLY", "RDWR"}
\* the flags create and open are called with
\* mode: the mode argument of create; open passes openat no mode, so a file it
\* creates gets whatever openat finds in place of the argument
CreateFlags == {[acc |-> a, creat |-> TRUE, append |-> ap, excl |-> e, trunc |-> FALSE,
                 mode |-> NewFileMode] :
                  a \in {"WRONLY", "RDWR"}, ap \in BOOLEAN, e \in BOOLEAN}
OpenFlags == {[acc |-> a, creat |-> c, append |-> ap, excl |-> FALSE, trunc |-> t,
               mode |-> NewFileMode] :
                  a \in AccessModes, c \in BOOLEAN, ap \in BOOLEAN, t \in BOOLEAN}

\* starts: encryptors started, closes: calls of ::close on the backing descriptor
NoFlush == [ran |-> FALSE, exit0 |-> FALSE, ret |-> 0, plain |-> <<>>,
            starts |-> 0, closes |-> 0]

\* no subprocess object exists. pc: where the parent is ("idle": in no call);
\* in_open, out_open: the parent's ends of the pipes; inq, outq: the bytes in
\* the child's stdin and stdout; held: bytes the child has read and not yet
\* written; kid: "running", "exited" (not yet reaped), "reaped"; normal, code:
\* how the child ends; wrote: bytes the write(2) in progress has delivered;
\* call, ret: the call that returned last and its value; closes, reaps: the
\* descriptors that call closed and the children it reaped; waits: calls of
\* wait so far; first: what the first wait returned
NoSubprocess ==
    [pc |-> "none", finished_ |-> FALSE, in_owned_ |-> FALSE, out_owned_ |-> FALSE,
     in_open |-> FALSE, out_open |-> FALSE, inq |-> 0, outq |-> 0, held |-> 0,
     kid |-> "none", normal |-> TRUE, code |-> 0,
     read_remaining |-> 0, write_remaining |-> 0, wready |-> FALSE,
     rready |-> FALSE, wrote |-> 0, call |-> "", ret |-> 0, closes |-> 0,
     reaps |-> 0, waits |-> 0, first |-> 0]

\* a close that does not look at open_
close_skipped_never(is_open) == FALSE

\* if (!(open_)) { return 0; } at the head of internal::close
close_skipped(is_open) == ~is_open

\* k successive calls of internal::close on one state (an explicit call, the
\* destructor's call): the encryptors they start and their calls of ::close
RECURSIVE close_calls(_, _, _)
close_calls(k, is_open, dirty) ==
    IF k = 0 THEN [starts |-> 0, closes |-> 0]
    ELSE IF close_skipped(is_open) THEN close_calls(k - 1, is_open, dirty)
    ELSE LET r == close_calls(k - 1, FALSE, FALSE)
         IN  [starts |-> r.starts + (IF dirty THEN 1 ELSE 0),
              closes |-> r.closes + 1]
\* what an operation leaves in last
Result(op, rc) ==
    [op |-> op, rc |-> rc, h |-> NoHandle, path |-> "", path2 |-> "",
     data |-> <<>>, size |-> 0, loads |-> 0, flush |-> NoFlush,
     registered |-> FALSE, shared |-> FALSE, mode |-> 0]

NoWrites == Zeros(MaxSize)
\* the history of a state just registered
NewHistory(by) == [by |-> IF track THEN by ELSE "", bytes |-> NoWrites, cut |-> FALSE]

\* the descriptor openat returns
Descriptor(r, fl) == [ino |-> r.ino, pos |-> 0, wr |-> fl.acc # "RDONLY",
                      append |-> fl.append]
\* the backing store after a successful openat
DirAfter(path, r) == [dir EXCEPT ![path] = r.ino]
InodesAfter(r) == [inodes EXCEPT ![r.ino] = r.content]
\* std::unordered_map::insert: keeps the entry of a key that is already there
Insert(m, k, v) == IF k \in DOMAIN m THEN m ELSE (k :> v) @@ m
Erase(m, k) == [x \in DOMAIN m \ {k} |-> m[x]]

TypeOK ==
    /\ read_ \in BOOLEAN
    /\ dir \in [Paths -> Inodes \cup {NoInode}]
    /\ next_ \in 0..MaxHandles
    /\ DOMAIN open_paths_ \subseteq Paths
    /\ DOMAIN open_fds_ \subseteq Handles
    /\ halted \in {"no", "hang", "crash"}
    /\ asserted \in BOOLEAN
    /\ live \in Nat
    /\ track \in BOOLEAN

\* ---- descriptors of the filesystem process ----
MaxFd == 9
Fds == 0..MaxFd
NoChild == {-1}

\* O_CLOEXEC in the flags of every ::open and ::openat of asymmetricfs
open_cloexec_missing == FALSE

open_cloexec == TRUE

\* the table after set_target: stdin, stdout, stderr and root_
InitialFds ==
    [fd \in 0..3 |-> IF fd < 3 THEN [kind |-> "std", cloexec |-> FALSE]
                              ELSE [kind |-> "root", cloexec |-> open_cloexec]]

\* the n-th lowest descriptor that is free in table t
RECURSIVE FreeFd(_, _)
FreeFd(t, n) ==
    LET low == MinOf(Fds \ DOMAIN t)
    IN  IF n = 1 THEN low
        ELSE FreeFd((low :> [kind |-> "held", cloexec |-> FALSE]) @@ t, n - 1)

\* ::dup2(old, new) and ::close(fd) on table t
Dup2(t, old, new) ==
    IF old \notin DOMAIN t \/ old = new THEN t
    ELSE (new :> [kind |-> t[old].kind, cloexec |-> FALSE]) @@ t

Close(t, fd) == [x \in DOMAIN t \ {fd} |-> t[x]]

\* subprocess::subprocess: the descriptors of the child when it calls execvp,
\* after the close-on-exec ones are gone
ChildAtExec(t, fd_in, fd_out) ==
    LET pipes_in == <<FreeFd(t, 1), FreeFd(t, 2)>>
        pipes_out == <<FreeFd(t, 3), FreeFd(t, 4)>>
        piped == [fd \in DOMAIN t \cup {pipes_in[1], pipes_in[2], pipes_out[1],
                                         pipes_out[2]} |->
                    IF fd \in DOMAIN t THEN t[fd]
                    ELSE [kind |-> "pipe", cloexec |-> FALSE]]
        in1 == IF fd_in >= 0
               THEN IF fd_in # 0 THEN Close(Dup2(piped, fd_in, 0), fd_in)
                    ELSE Dup2(piped, fd_in, 0)
               ELSE Close(Dup2(piped, pipes_in[1], 0), pipes_in[1])
        in2 == Close(Close(in1, pipes_in[1]), pipes_in[2])
        out1 == IF fd_out >= 0
                THEN IF fd_out # 1 THEN Close(Dup2(in2, fd_out, 1), fd_out)
                     ELSE Dup2(in2, fd_out, 1)
                ELSE Dup2(in2, pipes_out[2], 1)
        out2 == Close(Close(out1, pipes_out[1]), pipes_out[2])
    IN  {fd \in DOMAIN out2 : ~out2[fd].cloexec}

\* the mount right after construction, run by a process whose uid is in uids
BootAs(tracking, uids) ==
    /\ read_ \in BOOLEAN
    /\ track = tracking
    /\ dir = [p \in Paths |-> NoInode]
    /\ inodes = [i \in Inodes |-> <<>>]
    /\ next_ = 0
    /\ open_paths_ = [p \in {} |-> 0]
    /\ open_fds_ = [h \in {} |-> 0]
    /\ last = Result("init", 0)
    /\ halted = "no"
    /\ asserted = FALSE
    /\ hist = [h \in {} |-> 0]
    /\ sealed = [i \in Inodes |-> <<>>]
    /\ live = 0
    /\ pending = [t \in {} |-> 0]
    /\ meta = [i \in Inodes |-> [mode |-> NewFileMode, uid |-> User, gid |-> User]]
    /\ euid \in uids
    /\ pb = EmptyBuffer
    /\ flat = <<>>
    /\ fdt = InitialFds
    /\ child = NoChild
    /\ recipients_ = <<>>
    /\ open_dirs_ = {}
    /\ section = [t \in {} |-> 0]
    /\ sub = NoSubprocess

Boot(tracking) == BootAs(tracking, {User})

Init == Boot(FALSE)

\* the permission bits and the owner openat gives a file it creates
Born(path, fl) ==
    [i \in Inodes |->
        IF dir[path] = NoInode /\ dir'[path] = i
        THEN [mode |-> fl.mode, uid |-> euid, gid |-> euid]
        ELSE meta[i]]

\* the plaintext of handle h, if h was made by create on a new file, was never
\* truncated and holds what write calls stored from offset 0 on without a gap
WrittenPlain(h) ==
    LET w == hist[h].bytes
        k == Cardinality({j \in 1..MaxSize : w[j] # 0})
    IN  IF hist[h].by = "created" /\ ~hist[h].cut /\ \A j \in 1..k : w[j] # 0
        THEN SubSeq(w, 1, k) ELSE <<>>

\* the step's effect on sealed: the last release of a handle seals its plaintext
\* on its file when the flush succeeded and no other state works on the file; any
\* other change of a file's ciphertext breaks its seal
Sealing ==
    /\ track' = track
    /\ sealed' = [i \in Inodes |->
        IF ~track THEN <<>>
        ELSE IF /\ last'.op = "release" /\ last'.flush.ran
           /\ last'.h \in DOMAIN open_fds_ /\ open_fds_[last'.h].fd.ino = i
        THEN IF /\ last'.flush.exit0
                /\ \A g \in DOMAIN open_fds_ \ {last'.h} : open_fds_[g].fd.ino # i
             THEN WrittenPlain(last'.h) ELSE <<>>
        ELSE IF inodes'[i] = inodes[i] THEN sealed[i] ELSE <<>>]

\* a counter that hands out the value it handed out before
next_fd_again(n) == n

\* asymmetricfs::next_fd, called with mx_ held: next_++ returns n and leaves
\* the counter at n + 1
next_fd(n) == n + 1

\* asymmetricfs::create
Create(path, fl) ==
    /\ halted = "no"
    /\ next_ < MaxHandles
    /\ LET r == openat_retry(path, fl, create_retries(fl))
       IN  IF r.err # 0
           THEN /\ last' = [Result("create", -r.err) EXCEPT !.path = path]
                /\ UNCHANGED <<dir, inodes, next_, open_paths_, open_fds_,
                               hist, live>>
           ELSE LET fd == next_
                    data == [NewInternal(Descriptor(r, r.fl),
                                         [creat |-> TRUE, append |-> fl.append], path)
                               EXCEPT !.references = 1, !.buffer_set = TRUE]
                IN  /\ dir' = DirAfter(path, r)
                    /\ inodes' = InodesAfter(r)
                    /\ next_' = next_fd(next_)
                    /\ open_paths_' = Insert(open_paths_, path, fd)
                    /\ open_fds_' = (fd :> data) @@ open_fds_
                    /\ hist' = (fd :> NewHistory(IF r.created THEN "created"
                                                   ELSE "recreated")) @@ hist
                    /\ live' = live + 1
                    /\ last' = [Result("create", 0) EXCEPT !.path = path, !.h = fd,
                                  !.registered = TRUE,
                                  !.shared = path \in DOMAIN open_paths_]
    /\ UNCHANGED <<read_, halted, asserted>>
    /\ Sealing
    /\ meta' = Born(path, fl)
    /\ UNCHANGED <<pending, euid, pb, flat, envvars>>

\* asymmetricfs::create on thread t up to its openat, which runs before mx_ is
\* taken: the descriptor waits in pending
CreateOpenat(t, path, fl) ==
    /\ halted = "no"
    /\ t \notin DOMAIN pending
    /\ next_ + Cardinality(DOMAIN pending) < MaxHandles
    /\ LET r == openat_retry(path, fl, create_retries(fl))
       IN  IF r.err # 0
           THEN /\ last' = [Result("create", -r.err) EXCEPT !.path = path]
                /\ UNCHANGED <<dir, inodes, pending>>
           ELSE /\ dir' = DirAfter(path, r)
                /\ inodes' = InodesAfter(r)
                /\ pending' = (t :> [path |-> path, fl |-> fl, at |-> r.fl, ino |-> r.ino,
                                     created |-> r.created]) @@ pending
                /\ last' = [Result("openat", 0) EXCEPT !.path = path]
    /\ meta' = Born(path, fl)
    /\ UNCHANGED <<read_, next_, open_paths_, open_fds_, hist, live, halted,
                   asserted, euid, pb, flat, envvars>>
    /\ Sealing

\* asymmetricfs::create on thread t from scoped_lock l(mx_) on: the state is
\* registered
CreateRegister(t) ==
    /\ halted = "no"
    /\ t \in DOMAIN pending
    /\ LET c == pending[t]
           fd == next_
           data == [NewInternal(Descriptor(c, c.at),
                                [creat |-> TRUE, append |-> c.fl.append], c.path)
                      EXCEPT !.references = 1, !.buffer_set = TRUE]
       IN  /\ next_' = next_fd(next_)
           /\ open_paths_' = Insert(open_paths_, c.path, fd)
           /\ open_fds_' = (fd :> data) @@ open_fds_
           /\ hist' = (fd :> NewHistory(IF c.created THEN "created"
                                          ELSE "recreated")) @@ hist
           /\ live' = live + 1
           /\ last' = [Result("create", 0) EXCEPT !.path = c.path, !.h = fd,
                         !.registered = TRUE,
                         !.shared = c.path \in DOMAIN open_paths_]
    /\ pending' = [u \in DOMAIN pending \ {t} |-> pending[u]]
    /\ UNCHANGED <<read_, dir, inodes, halted, asserted, meta, euid, pb, flat, envvars>>
    /\ Sealing

\* an open that never treats the buffer of an empty file as initialized
open_buffer_set_never(st_size) == FALSE

\* asymmetricfs::open: buffer_set of the new state, from st_size of the file
open_buffer_set(st_size) == st_size = 0

\* asymmetricfs::open
Open(path, fl) ==
    /\ halted = "no"
    /\ IF path \in DOMAIN open_paths_
       THEN LET h == open_paths_[path]
            IN  IF h \notin DOMAIN open_fds_
                THEN \* assert(jit != open_fds_.end()), then end() is dereferenced
                     /\ halted' = "crash"
                     /\ asserted' = TRUE
                     /\ last' = [Result("open", 0) EXCEPT !.path = path]
                     /\ UNCHANGED <<dir, inodes, next_, open_paths_, open_fds_,
                                    hist, live>>
                ELSE /\ open_fds_[h].references < MaxRefs
                     /\ open_fds_' = [open_fds_ EXCEPT ![h].references = @ + 1]
                     /\ live' = live + 1
                     /\ last' = [Result("open", 0) EXCEPT !.path = path, !.h = h,
                                   !.shared = TRUE]
                     /\ UNCHANGED <<dir, inodes, next_, open_paths_, hist,
                                    halted, asserted>>
       ELSE LET for_reading == fl.acc \in {"RDWR", "RDONLY"}
                flags == IF ~read_ /\ for_reading /\ fl.creat
                         THEN [fl EXCEPT !.excl = TRUE] ELSE fl
                r == openat_retry(path, flags, open_retries(fl))
            IN  /\ next_ < MaxHandles
                /\ IF r.err # 0
                   THEN /\ last' = [Result("open", -r.err) EXCEPT !.path = path]
                        /\ UNCHANGED <<dir, inodes, next_, open_paths_, open_fds_,
                                       hist, live>>
                   ELSE LET fd == next_
                            data == [NewInternal(Descriptor(r, r.fl),
                                        [creat |-> flags.creat, append |-> flags.append],
                                        path)
                                       EXCEPT !.references = 1,
                                              !.buffer_set = open_buffer_set(Len(r.content))]
                        IN  /\ dir' = DirAfter(path, r)
                            /\ inodes' = InodesAfter(r)
                            /\ next_' = next_fd(next_)
                            /\ open_paths_' = Insert(open_paths_, path, fd)
                            /\ open_fds_' = (fd :> data) @@ open_fds_
                            /\ hist' = (fd :> NewHistory(
                                   IF r.created THEN "new"
                                   ELSE IF Len(r.content) = 0 THEN "empty"
                                   ELSE "nonempty")) @@ hist
                            /\ live' = live + 1
                            /\ last' = [Result("open", 0) EXCEPT !.path = path,
                                          !.h = fd, !.registered = TRUE]
                /\ UNCHANGED <<halted, asserted>>
    /\ UNCHANGED read_
    /\ Sealing
    /\ meta' = Born(path, fl)
    /\ UNCHANGED <<pending, euid, pb, flat, envvars>>

\* a release that passes on what internal::close returned
release_return_close(close_ret) == close_ret

\* asymmetricfs::release: what it returns once the state is deleted, close_ret
\* being what internal::close returned to the destructor
release_return(close_ret) == 0

\* asymmetricfs::release; tool_ok: the encryptor exits 0; junk, crash: what the
\* out-of-bounds read of splice does, if it comes to one
Release(h, tool_ok, junk, crash) ==
    /\ halted = "no"
    \* the tool's exit status and the out-of-bounds read exist only in a flush
    /\ tool_ok \/ (h \in DOMAIN open_fds_ /\ open_fds_[h].references = 1
                      /\ open_fds_[h].dirty)
    /\ (junk = 0 /\ ~crash) \/ (h \in DOMAIN open_fds_ /\ open_fds_[h].references = 1
                      /\ open_fds_[h].dirty /\ PBSplice(open_fds_[h].buffer).ub)
    /\ IF h \notin DOMAIN open_fds_
       THEN /\ last' = [Result("release", 0) EXCEPT !.h = h]
            /\ UNCHANGED <<inodes, open_paths_, open_fds_, hist, live,
                           halted, asserted>>
       ELSE LET st == open_fds_[h]
                new_count == st.references - 1
            IN  IF new_count # 0
                THEN /\ open_fds_' = [open_fds_ EXCEPT ![h].references = new_count]
                     /\ live' = live - 1
                     /\ last' = [Result("release", 0) EXCEPT !.h = h,
                                   !.registered = TRUE]
                     /\ UNCHANGED <<inodes, open_paths_, hist, halted, asserted>>
                ELSE LET fds == Erase(open_fds_, h)
                         \* c: what the destructor's close gave
                         Closed(c) ==
                             IF c.ub /\ crash
                             THEN /\ halted' = "crash"
                                  /\ asserted' = TRUE
                                  /\ last' = [Result("release", 0) EXCEPT !.h = h]
                                  /\ UNCHANGED <<inodes, open_paths_, open_fds_,
                                                 hist, live>>
                             ELSE /\ open_paths_' = Erase(open_paths_, st.path)
                                  /\ open_fds_' = fds
                                  /\ inodes' = Reclaim(
                                        [inodes EXCEPT ![st.fd.ino] = c.content],
                                        dir, fds)
                                  /\ hist' = Erase(hist, h)
                                  /\ live' = live - 1
                                  /\ asserted' = (asserted \/ c.asserted)
                                  /\ halted' = "no"
                                  /\ last' = [Result("release", release_return(c.ret))
                                                EXCEPT !.h = h,
                                                !.path = st.path, !.registered = TRUE,
                                                !.flush = [ran |-> c.ran,
                                                           exit0 |-> c.exit0,
                                                           ret |-> c.ret,
                                                           plain |-> c.plain]
                                                    @@ close_calls(1, TRUE, st.dirty),
                                                !.data = hist[h].bytes]
                     IN  Closed(close(st, inodes[st.fd.ino], tool_ok, junk))
    /\ UNCHANGED <<read_, dir, next_>>
    /\ Sealing
    /\ UNCHANGED <<pending, meta, euid, pb, flat, envvars>>

\* asymmetricfs::write of n bytes b at offset
\* if (size == 0) { return 0; }
write_is_empty_never(n) == FALSE

write_is_empty(n) == n = 0

Write(h, n, offset, b) ==
    /\ halted = "no"
    /\ IF h \notin DOMAIN open_fds_
       THEN /\ last' = [Result("write", -EBADF) EXCEPT !.h = h]
            /\ UNCHANGED <<open_fds_, hist, halted, asserted>>
       ELSE IF write_is_empty(n)
       THEN /\ last' = [Result("write", 0) EXCEPT !.h = h]
            /\ UNCHANGED <<open_fds_, hist, halted, asserted>>
       ELSE IF offset < 0
       THEN /\ last' = [Result("write", -EINVAL) EXCEPT !.h = h]
            /\ UNCHANGED <<open_fds_, hist, halted, asserted>>
       ELSE LET Stored(w) ==
                    /\ open_fds_' = [open_fds_ EXCEPT
                                       ![h].buffer = [allocs |-> w.allocs,
                                                      size |-> w.size],
                                       ![h].dirty = IF w.hang THEN @ ELSE TRUE]
                    /\ halted' = IF w.hang THEN "hang" ELSE "no"
                    /\ asserted' = (asserted \/ w.asserted)
                    /\ hist' = IF w.hang THEN hist
                                  ELSE [hist EXCEPT ![h].bytes =
                                          [j \in 1..MaxSize |->
                                             IF track /\ j > offset /\ j <= offset + n
                                             THEN b ELSE @[j]]]
                    /\ last' = [Result("write", IF w.hang THEN 0 ELSE n)
                                  EXCEPT !.h = h, !.size = offset,
                                         !.data = Fill(n, b)]
            IN  Stored(PBWrite(open_fds_[h].buffer, n, offset, Fill(n, b)))
    /\ UNCHANGED <<read_, dir, inodes, next_, open_paths_, live>>
    /\ Sealing
    /\ UNCHANGED <<pending, meta, euid, pb, flat, envvars>>

\* a read check that forgets the flags the state was opened with
read_denied_unset(st) == ~st.buffer_set

\* asymmetricfs::read, write-only mode: the state's buffer may not be read
read_denied(st) == ~st.buffer_set /\ (st.flags.append \/ ~st.flags.creat)

\* asymmetricfs::read of n bytes at offset
Read(h, n, offset) ==
    /\ halted = "no"
    /\ IF h \notin DOMAIN open_fds_
       THEN /\ last' = [Result("read", -EBADF) EXCEPT !.h = h]
            /\ UNCHANGED <<open_fds_, halted, asserted>>
       ELSE IF offset < 0
       THEN /\ last' = [Result("read", 0) EXCEPT !.h = h, !.size = offset]
            /\ UNCHANGED <<open_fds_, halted, asserted>>
       ELSE LET st == open_fds_[h]
            IN  IF ~read_
                THEN IF read_denied(st)
                     THEN /\ last' = [Result("read", -EACCES) EXCEPT !.h = h,
                                        !.size = offset]
                          /\ UNCHANGED <<open_fds_, halted, asserted>>
                     ELSE LET d == PBRead(st.buffer, n, offset)
                          IN  /\ last' = [Result("read", Len(d)) EXCEPT !.h = h,
                                            !.data = d, !.size = offset]
                              /\ UNCHANGED <<open_fds_, halted, asserted>>
                ELSE LET Served(l, d) ==
                             /\ open_fds_' = [open_fds_ EXCEPT ![h] = l.st]
                             /\ halted' = IF l.hang THEN "hang" ELSE "no"
                             /\ asserted' = (asserted \/ l.asserted)
                             /\ last' = IF l.hang \/ l.ret # 0
                                        THEN [Result("read", -l.ret) EXCEPT !.h = h,
                                                !.loads = l.loads, !.size = offset]
                                        ELSE [Result("read", Len(d)) EXCEPT !.h = h,
                                                !.data = d, !.loads = l.loads,
                                                !.size = offset]
                         Loaded(l) == Served(l, PBRead(l.st.buffer, n, offset))
                     IN  Loaded(load_buffer(st, inodes[st.fd.ino]))
    /\ UNCHANGED <<read_, dir, inodes, next_, open_paths_, hist, live>>
    /\ Sealing
    /\ UNCHANGED <<pending, meta, euid, pb, flat, envvars>>

\* a statfd that loads the buffer in either mode
statfd_load_always(st, content) == load_buffer(st, content)

\* asymmetricfs::statfd: the buffer is loaded in read-write mode only
statfd_load(st, content) ==
    IF read_ THEN load_buffer(st, content)
    ELSE [st |-> st, ret |-> 0, hang |-> FALSE, asserted |-> FALSE, loads |-> 0]

\* asymmetricfs::statfd on handle fd: the return code, st_size and the new state
statfd(fd) ==
    IF fd \notin DOMAIN open_fds_
    THEN [rc |-> -EBADF, size |-> 0, known |-> FALSE, hang |-> FALSE,
          asserted |-> FALSE, loads |-> 0, mode |-> 0]
    ELSE LET st == open_fds_[fd]
             disk == Len(inodes[st.fd.ino])
             Stat(l) ==
                 LET size == l.st.buffer.size
                 IN  [rc |-> -l.ret,
                      size |-> IF l.ret # 0 THEN 0
                               ELSE IF l.st.buffer_set THEN size
                               ELSE IF l.st.flags.append THEN disk + size
                               ELSE disk,
                      known |-> TRUE, st |-> l.st, hang |-> l.hang,
                      asserted |-> l.asserted
                                   \/ (l.ret = 0 /\ read_ /\ ~l.st.buffer_set),
                      loads |-> l.loads,
                      mode |-> IF l.ret # 0 THEN 0 ELSE meta[st.fd.ino].mode]
         IN  Stat(statfd_load(st, inodes[st.fd.ino]))

\* what statfd leaves behind, for fgetattr and getattr of an open path
StatfdEffect(op, fd, path) ==
    LET Effect(s) ==
            /\ open_fds_' = IF s.known THEN [open_fds_ EXCEPT ![fd] = s.st]
                            ELSE open_fds_
            /\ halted' = IF s.hang THEN "hang" ELSE "no"
            /\ asserted' = (asserted \/ s.asserted)
            /\ last' = [Result(op, s.rc) EXCEPT !.h = fd, !.path = path,
                          !.size = s.size, !.loads = s.loads, !.mode = s.mode]
    IN  Effect(statfd(fd))

\* asymmetricfs::fgetattr
Fgetattr(h) ==
    /\ halted = "no"
    /\ StatfdEffect("fgetattr", h, "")
    /\ UNCHANGED <<read_, dir, inodes, next_, open_paths_, hist, live>>
    /\ Sealing
    /\ UNCHANGED <<pending, meta, euid, pb, flat, envvars>>

\* mode & ~(S_IRUSR | S_IRGRP | S_IROTH): each octal digit of the permission
\* bits loses its 4
clear_read_none(mode) == mode

clear_read(mode) ==
    (mode \div 512) * 512 + (((mode \div 64) % 8) % 4) * 64
        + (((mode \div 8) % 8) % 4) * 8 + ((mode % 8) % 4)

\* asymmetricfs::getattr
Getattr(path) ==
    /\ halted = "no"
    /\ IF path \in DOMAIN open_paths_
       THEN StatfdEffect("getattr", open_paths_[path], path)
       ELSE /\ last' = IF dir[path] = NoInode
                       THEN [Result("getattr", -ENOENT) EXCEPT !.path = path]
                       ELSE [Result("getattr", 0) EXCEPT !.path = path,
                               !.size = Len(inodes[dir[path]]),
                               !.mode = IF ~read_
                                        THEN clear_read(meta[dir[path]].mode)
                                        ELSE meta[dir[path]].mode]
            /\ UNCHANGED <<open_fds_, halted, asserted>>
    /\ UNCHANGED <<read_, dir, inodes, next_, open_paths_, hist, live>>
    /\ Sealing
    /\ UNCHANGED <<pending, meta, euid, pb, flat, envvars>>

\* the bytes write stored that a truncate to offset leaves
CutWrites(w, offset) == [j \in 1..MaxSize |-> IF j > offset THEN 0 ELSE w[j]]

\* asymmetricfs::truncatefd, and what it leaves behind
\* a truncation to a size above 0 decrypts, cuts and encrypts again, which only
\* a mount in read-write mode does
truncate_reencrypts_always(rd) == TRUE

truncate_reencrypts(rd) == rd

TruncatefdEffect(op, fd, path, offset) ==
    IF fd \notin DOMAIN open_fds_
    THEN /\ last' = [Result(op, -EBADF) EXCEPT !.h = fd, !.path = path, !.size = offset]
         /\ UNCHANGED <<inodes, open_fds_, hist, halted, asserted>>
    ELSE IF offset < 0
    THEN /\ last' = [Result(op, -EINVAL) EXCEPT !.h = fd, !.path = path, !.size = offset]
         /\ UNCHANGED <<inodes, open_fds_, hist, halted, asserted>>
    ELSE IF offset = 0
    THEN IF ~open_fds_[fd].fd.wr
         THEN \* ::ftruncate on a descriptor not open for writing
              /\ last' = [Result(op, -EINVAL) EXCEPT !.h = fd, !.path = path, !.size = offset]
              /\ UNCHANGED <<inodes, open_fds_, hist, halted, asserted>>
         ELSE /\ inodes' = [inodes EXCEPT ![open_fds_[fd].fd.ino] = <<>>]
              /\ open_fds_' = [open_fds_ EXCEPT
                                 ![fd].buffer = PBResize(@, 0), ![fd].dirty = TRUE]
              /\ hist' = [hist EXCEPT ![fd].bytes = CutWrites(@, 0), ![fd].cut = track]
              /\ last' = [Result(op, 0) EXCEPT !.h = fd, !.path = path, !.size = offset]
              /\ UNCHANGED <<halted, asserted>>
    ELSE IF truncate_reencrypts(read_)
    THEN LET Loaded(l) ==
                 /\ open_fds_' = [open_fds_ EXCEPT ![fd] =
                                    IF l.hang \/ l.ret # 0 THEN l.st
                                    ELSE [l.st EXCEPT !.buffer = PBResize(@, offset),
                                                      !.dirty = TRUE]]
                 /\ hist' = IF l.hang \/ l.ret # 0 THEN hist
                               ELSE [hist EXCEPT ![fd].bytes = CutWrites(@, offset),
                                                  ![fd].cut = track]
                 /\ halted' = IF l.hang THEN "hang" ELSE "no"
                 /\ asserted' = (asserted \/ l.asserted)
                 /\ last' = [Result(op, -l.ret) EXCEPT !.h = fd, !.path = path,
                               !.size = offset, !.loads = l.loads]
                 /\ UNCHANGED inodes
         IN  Loaded(load_buffer(open_fds_[fd], inodes[open_fds_[fd].fd.ino]))
    ELSE /\ last' = [Result(op, -EACCES) EXCEPT !.h = fd, !.path = path, !.size = offset]
         /\ UNCHANGED <<inodes, open_fds_, hist, halted, asserted>>

\* asymmetricfs::ftruncate
Ftruncate(h, offset) ==
    /\ halted = "no"
    /\ TruncatefdEffect("ftruncate", h, "", offset)
    /\ UNCHANGED <<read_, dir, next_, open_paths_, live>>
    /\ Sealing
    /\ UNCHANGED <<pending, meta, euid, pb, flat, envvars>>

\* asymmetricfs::truncate
Truncate(path, offset, tool_ok, junk, crash) ==
    /\ halted = "no"
    \* the tool's exit status and the out-of-bounds read exist only in a flush
    /\ tool_ok \/ (read_ /\ offset > 0 /\ path \notin DOMAIN open_paths_
                      /\ dir[path] # NoInode)
    /\ (junk = 0 /\ ~crash) \/ (read_ /\ offset > 0 /\ path \notin DOMAIN open_paths_
                      /\ dir[path] # NoInode)
    /\ IF offset < 0
       THEN /\ last' = [Result("truncate", -EINVAL) EXCEPT !.path = path]
            /\ UNCHANGED <<inodes, open_fds_, hist, halted, asserted>>
       ELSE IF path \in DOMAIN open_paths_
       THEN TruncatefdEffect("truncate", open_paths_[path], path, offset)
       ELSE IF dir[path] = NoInode
       THEN /\ last' = [Result("truncate", IF offset = 0 \/ truncate_reencrypts(read_)
                                           THEN -ENOENT
                                           ELSE -EACCES) EXCEPT !.path = path]
            /\ UNCHANGED <<inodes, open_fds_, hist, halted, asserted>>
       ELSE IF offset = 0
       THEN /\ inodes' = [inodes EXCEPT ![dir[path]] = <<>>]
            /\ last' = [Result("truncate", 0) EXCEPT !.path = path]
            /\ UNCHANGED <<open_fds_, hist, halted, asserted>>
       ELSE IF truncate_reencrypts(read_)
       THEN LET fd == [ino |-> dir[path], pos |-> 0, wr |-> TRUE, append |-> FALSE]
                data == NewInternal(fd, [creat |-> FALSE, append |-> FALSE], path)
                \* l: what load_buffer gave, c: what the destructor's close gave
                Closed(l, c) ==
                    IF l.hang \/ l.ret # 0
                    THEN /\ halted' = IF l.hang THEN "hang" ELSE "no"
                         /\ asserted' = (asserted \/ l.asserted)
                         /\ last' = [Result("truncate", -l.ret) EXCEPT !.path = path,
                                       !.loads = l.loads,
                                       !.flush = [ran |-> FALSE, exit0 |-> FALSE,
                                                  ret |-> 0, plain |-> <<>>]
                                           @@ close_calls(1, TRUE, FALSE)]
                         /\ UNCHANGED <<inodes, open_fds_, hist>>
                    ELSE IF c.ub /\ crash
                    THEN /\ halted' = "crash"
                         /\ asserted' = TRUE
                         /\ last' = [Result("truncate", 0) EXCEPT !.path = path,
                                       !.loads = l.loads]
                         /\ UNCHANGED <<inodes, open_fds_, hist>>
                    ELSE /\ inodes' = [inodes EXCEPT ![dir[path]] = c.content]
                         /\ asserted' = (asserted \/ l.asserted \/ c.asserted
                                            \/ ~l.st.buffer_set)
                         /\ last' = [Result("truncate",
                                             IF c.ret = 0 THEN 0 ELSE -c.ret)
                                       EXCEPT !.path = path, !.loads = l.loads,
                                              !.flush = [ran |-> c.ran,
                                                         exit0 |-> c.exit0,
                                                         ret |-> c.ret,
                                                         plain |-> c.plain]
                                                  @@ close_calls(2, TRUE, TRUE)]
                         /\ UNCHANGED <<open_fds_, hist, halted>>
                \* ::lseek(fd, 0, SEEK_SET), resize, dirty
                Loaded(l) ==
                    Closed(l, close([l.st EXCEPT !.fd.pos = 0,
                                                 !.buffer = PBResize(@, offset),
                                                 !.dirty = TRUE],
                                    inodes[dir[path]], tool_ok, junk))
            IN  Loaded(load_buffer(data, inodes[dir[path]]))
       ELSE /\ last' = [Result("truncate", -EACCES) EXCEPT !.path = path]
            /\ UNCHANGED <<inodes, open_fds_, hist, halted, asserted>>
    /\ UNCHANGED <<read_, dir, next_, open_paths_, live>>
    /\ Sealing
    /\ UNCHANGED <<pending, meta, euid, pb, flat, envvars>>

\* open_paths_.insert(std::make_pair(newpath, fd)); open_paths_.erase(it)
move_key_kept(m, oldpath, newpath, fd) == Insert(m, newpath, fd)

move_key(m, oldpath, newpath, fd) == Erase(Insert(m, newpath, fd), oldpath)

\* a rename that goes on after a failed ::renameat
rename_fails_never(ret) == FALSE

\* if (ret != 0) { return -errno; }
rename_fails(ret) == ret # 0

\* ::renameat on the backing directory d: its result and the directory after it
renameat(d, oldpath, newpath) ==
    IF d[oldpath] = NoInode THEN [ret |-> -1, errno |-> ENOENT, dir |-> d]
    ELSE [ret |-> 0, errno |-> 0,
          dir |-> IF oldpath = newpath THEN d
                  ELSE [d EXCEPT ![newpath] = d[oldpath], ![oldpath] = NoInode]]

\* the tables S after the part of asymmetricfs::rename that follows a
\* successful ::renameat
rename_tables(S, oldpath, newpath) ==
    IF oldpath \in DOMAIN S.open_paths_
    THEN LET fd == S.open_paths_[oldpath]
         IN  [S EXCEPT !.rc = 0, !.h = fd,
                !.open_paths_ = move_key(S.open_paths_, oldpath, newpath, fd),
                !.open_fds_ = IF fd \in DOMAIN S.open_fds_
                              THEN [S.open_fds_ EXCEPT ![fd].path = newpath]
                              ELSE S.open_fds_]
    ELSE [S EXCEPT !.rc = 0, !.h = NoHandle]

\* the directory and the tables S after asymmetricfs::rename, with its result
renamed(S, oldpath, newpath) ==
    LET r == renameat(S.dir, oldpath, newpath)
    IN  IF rename_fails(r.ret)
        THEN [S EXCEPT !.rc = -r.errno, !.h = NoHandle]
        ELSE rename_tables([S EXCEPT !.dir = r.dir,
                                     !.inodes = Reclaim(S.inodes, r.dir, S.open_fds_)],
                           oldpath, newpath)

\* the part of the state rename works on
Tables ==
    [rc |-> 0, h |-> NoHandle, dir |-> dir, inodes |-> inodes,
     open_paths_ |-> open_paths_, open_fds_ |-> open_fds_]

RenameTo(r, oldpath, newpath) ==
    /\ dir' = r.dir
    /\ inodes' = r.inodes
    /\ open_paths_' = r.open_paths_
    /\ open_fds_' = r.open_fds_
    /\ last' = [Result("rename", r.rc) EXCEPT !.path = oldpath,
                  !.path2 = newpath, !.h = r.h]

\* asymmetricfs::rename
Rename(oldpath, newpath) ==
    /\ halted = "no"
    /\ RenameTo(renamed(Tables, oldpath, newpath), oldpath, newpath)
    /\ UNCHANGED <<read_, next_, hist, live, halted, asserted>>
    /\ Sealing
    /\ UNCHANGED <<pending, meta, euid, pb, flat, envvars>>

\* asymmetricfs::unlink
Unlink(path) ==
    /\ halted = "no"
    /\ IF dir[path] = NoInode
       THEN /\ last' = [Result("unlink", -ENOENT) EXCEPT !.path = path]
            /\ UNCHANGED <<dir, inodes>>
       ELSE /\ dir' = [dir EXCEPT ![path] = NoInode]
            /\ inodes' = Reclaim(inodes, [dir EXCEPT ![path] = NoInode], open_fds_)
            /\ last' = [Result("unlink", 0) EXCEPT !.path = path]
    /\ UNCHANGED <<read_, next_, open_paths_, open_fds_, hist, live, halted,
                   asserted>>
    /\ Sealing
    /\ UNCHANGED <<pending, meta, euid, pb, flat, envvars>>

\* what the encryptor and an out-of-bounds read may do
Junk == {0, GARBAGE}

(***************************************************************************)
(* Spec: the handle tables. Every operation on two paths, with the least   *)
(* of file contents: one byte hist at offset 0, truncation to 0.        *)
(***************************************************************************)
TableCreateFlags == {fl \in CreateFlags : fl.acc = "RDWR" /\ ~fl.append}
TableOpenFlags == {fl \in OpenFlags : fl.acc = "RDWR" /\ ~fl.append /\ ~fl.trunc}

Next ==
    \/ \E p \in Paths, fl \in TableCreateFlags : Create(p, fl)
    \/ \E p \in Paths, fl \in TableOpenFlags : Open(p, fl)
    \/ \E h \in Handles, ok \in BOOLEAN : Release(h, ok, 0, FALSE)
    \/ \E h \in Handles : Write(h, 1, 0, 1)
    \/ \E h \in Handles : Fgetattr(h)
    \/ \E p \in Paths : Getattr(p)
    \/ \E p \in Paths : Truncate(p, 0, TRUE, 0, FALSE)
    \/ \E p \in Paths, q \in Paths : Rename(p, q)
    \/ \E p \in Paths : Unlink(p)

Spec == Init /\ [][Next]_vars

(***************************************************************************)
(* File contents on one path, created while no state is open on it:       *)
(* SpecRW in read-write mode, SpecWO in write-only mode.                   *)
(***************************************************************************)
IOPath == "/a"
\* the <<size, offset>> write is called with, the sizes files are cut to
WriteCalls == {<<0, 0>>, <<1, -1>>, <<1, 0>>, <<1, MaxSize - 1>>, <<MaxSize - 1, 0>>}
TruncateSizes == {-1, 0, 1, MaxSize}
\* read-write mode turns every access mode into O_RDWR
RWCreateFlags == {fl \in CreateFlags : fl.acc = "RDWR"}
RWOpenFlags == {fl \in OpenFlags : fl.acc = "RDWR"}

\* create of a path no state is open on
CreateClosed(path, fl) == path \notin DOMAIN open_paths_ /\ Create(path, fl)

InitRW == Boot(TRUE) /\ read_
InitWO == Boot(TRUE) /\ ~read_

NextRW ==
    \/ \E fl \in RWCreateFlags : CreateClosed(IOPath, fl)
    \/ \E fl \in RWOpenFlags : Open(IOPath, fl)
    \/ \E h \in Handles, ok \in BOOLEAN, j \in Junk, cr \in BOOLEAN :
          Release(h, ok, j, cr)
    \/ \E h \in Handles, c \in WriteCalls, b \in Bytes : Write(h, c[1], c[2], b)
    \/ \E h \in Handles, o \in {-1, 0} : Read(h, MaxSize, o)
    \/ \E h \in Handles : Fgetattr(h)
    \/ \E h \in Handles, o \in TruncateSizes : Ftruncate(h, o)

SpecRW == InitRW /\ [][NextRW]_vars

NextWO ==
    \/ \E fl \in CreateFlags : CreateClosed(IOPath, fl)
    \/ \E fl \in OpenFlags : Open(IOPath, fl)
    \/ \E h \in Handles, ok \in BOOLEAN, j \in Junk, cr \in BOOLEAN :
          Release(h, ok, j, cr)
    \/ \E h \in Handles, c \in WriteCalls, b \in Bytes : Write(h, c[1], c[2], b)
    \/ \E h \in Handles, o \in {-1, 0} : Read(h, MaxSize, o)
    \/ \E h \in Handles : Fgetattr(h)
    \/ Getattr(IOPath)
    \/ \E h \in Handles, o \in TruncateSizes : Ftruncate(h, o)
    \/ \E o \in TruncateSizes, ok \in BOOLEAN, j \in Junk, cr \in BOOLEAN :
          Truncate(IOPath, o, ok, j, cr)

SpecWO == InitWO /\ [][NextWO]_vars

(***************************************************************************)
(* A page buffer on its own, next to the flat byte array it stands for.    *)
(***************************************************************************)
\* the byte values written into the buffer
MaxPBByte == 2
PBBytes == 1..MaxPBByte

\* the variables of the filesystem object, which a step of the buffer leaves alone
fsvars == <<read_, dir, inodes, next_, open_paths_, open_fds_, last, hist, sealed,
            track, live, pending, meta, euid>>

\* page_buffer::write(n, offset, src), src holding n bytes b
BufferWrite(n, offset, b) ==
    /\ halted = "no"
    /\ LET Stored(w) ==
               /\ pb' = [allocs |-> w.allocs, size |-> w.size]
               /\ halted' = IF w.hang THEN "hang" ELSE "no"
               /\ asserted' = (asserted \/ w.asserted)
       IN  Stored(PBWrite(pb, n, offset, Fill(n, b)))
    /\ flat' = IF n = 0 THEN flat
               ELSE [j \in 1..Max2(Len(flat), offset + n) |->
                       IF j > offset /\ j <= offset + n THEN b
                       ELSE IF j <= Len(flat) THEN flat[j] ELSE 0]
    /\ UNCHANGED <<fsvars, envvars>>

\* page_buffer::resize(n)
BufferResize(n) ==
    /\ halted = "no"
    /\ pb' = PBResize(pb, n)
    /\ flat' = [j \in 1..n |-> IF j <= Len(flat) THEN flat[j] ELSE 0]
    /\ UNCHANGED <<halted, asserted>>
    /\ UNCHANGED <<fsvars, envvars>>

\* page_buffer::clear()
BufferClear ==
    /\ halted = "no"
    /\ pb' = PBClear(pb)
    /\ flat' = <<>>
    /\ UNCHANGED <<halted, asserted>>
    /\ UNCHANGED <<fsvars, envvars>>

InitPB == Boot(FALSE) /\ ~read_

\* writes on a fresh buffer
NextPBW ==
    \E offset \in 0..MaxSize : \E n \in 0..(MaxSize - offset), b \in PBBytes :
        BufferWrite(n, offset, b)

SpecPBW == InitPB /\ [][NextPBW]_vars

\* writes, resizes and clears on a fresh buffer
NextPB ==
    \/ \E offset \in 0..MaxSize : \E n \in 0..(MaxSize - offset), b \in PBBytes :
          BufferWrite(n, offset, b)
    \/ \E n \in 0..MaxSize : BufferResize(n)
    \/ BufferClear

SpecPB == InitPB /\ [][NextPB]_vars

MTCreateFlags == {fl \in TableCreateFlags : ~fl.excl}
MTOpenFlags == {fl \in TableOpenFlags : ~fl.creat}

\* create on several threads: its openat and its registration are two steps,
\* every other handler holds mx_ from its first access to the tables on
NextMT ==
    \/ \E t \in Threads, p \in Paths, fl \in MTCreateFlags : CreateOpenat(t, p, fl)
    \/ \E t \in Threads : CreateRegister(t)
    \/ \E p \in Paths, fl \in MTOpenFlags : Open(p, fl)
    \/ \E h \in Handles : Release(h, TRUE, 0, FALSE)
    \/ \E p \in Paths : Unlink(p)

SpecMT == Init /\ [][NextMT]_vars

(***************************************************************************)
(* The claims.                                                             *)
(***************************************************************************)
\* the state of the handle the last operation was called with, if registered
LastState == open_fds_[last.h]
LastOn(op) == last.op = op /\ last.h \in DOMAIN open_fds_

\* a read of the whole file through a handle that open registered on a sealed
\* file and that has neither been written nor truncated since
ReadsSealed ==
    /\ read_ /\ LastOn("read") /\ last.size = 0
    /\ hist[last.h].by = "nonempty" /\ hist[last.h].bytes = NoWrites
    /\ ~hist[last.h].cut
    /\ sealed[LastState.fd.ino] # <<>>

\* C1: in read-write mode, a plaintext P written from offset 0 to a newly created
\* file by one or more write calls is, after the last release and a fresh open,
\* exactly what a read of the full file returns.
C1_RoundTrip ==
    ReadsSealed =>
        /\ last.rc = Len(sealed[LastState.fd.ino])
        /\ last.data = sealed[LastState.fd.ino]

\* a read at an offset >= 0 through a registered handle, in write-only mode
ReadsWriteOnly == ~read_ /\ LastOn("read") /\ last.size >= 0

Written(w) == [allocs |-> w.allocs, size |-> w.size]

\* C3: in write-only mode no operation ever runs the decryptor, a state's buffer
\* starts empty and changes only by a write or a truncate called on that state, to
\* what the call's arguments and the buffer before it determine, and a successful
\* read returns bytes of that buffer: the contents of the backing files never
\* enter a read result.
C3_NoDecryption ==
    [][~read_ /\ halted' = "no" =>
        /\ last'.loads = 0
        /\ \A h \in DOMAIN open_fds_' :
              IF h \notin DOMAIN open_fds_
              THEN open_fds_'[h].buffer = EmptyBuffer
              ELSE \/ open_fds_'[h].buffer = open_fds_[h].buffer
                   \/ /\ last'.op = "write" /\ last'.h = h
                      /\ open_fds_'[h].buffer =
                            Written(PBWrite(open_fds_[h].buffer, last'.rc, last'.size,
                                            last'.data))
                   \/ /\ last'.op \in {"ftruncate", "truncate"} /\ last'.h = h
                      /\ open_fds_'[h].buffer = PBResize(open_fds_[h].buffer, last'.size)
        /\ (last'.op = "read" /\ last'.h \in DOMAIN open_fds_' /\ last'.rc >= 0
             /\ last'.size >= 0) =>
              last'.data = PBRead(open_fds_'[last'.h].buffer, MaxSize, last'.size)
    ]_vars

\* a read returns a state's own bytes while the file it was opened on has contents
C3_Witness ==
    /\ ~read_ /\ LastOn("read") /\ last.rc > 0
    /\ hist[last.h].by = "nonempty" /\ inodes[LastState.fd.ino] # <<>>

FlushedByte(j) ==
    /\ last.flush.ran /\ j <= Len(last.flush.plain)
    /\ last.flush.plain[j] = last.data[j]

\* C5: every byte a successful write stored through a state, and that was not
\* overwritten or truncated later, is at its offset in the plaintext handed to the
\* encryptor at the last release; a load after a write does not clear the dirty
\* flag.
C5_WritesReachEncryptor ==
    [][/\ (last'.op = "release" /\ last'.path # "") =>
             \A j \in 1..MaxSize : last'.data[j] # 0 => FlushedByte(j)'
       /\ \A h \in DOMAIN open_fds_ \cap DOMAIN open_fds_' :
             (open_fds_[h].dirty /\ last'.loads > 0 /\ halted' = "no") =>
                open_fds_'[h].dirty
    ]_vars

TablesInverse ==
    /\ {open_paths_[p] : p \in DOMAIN open_paths_} = DOMAIN open_fds_
    /\ \A p, q \in DOMAIN open_paths_ : open_paths_[p] = open_paths_[q] => p = q
    /\ \A h \in DOMAIN open_fds_ :
          /\ open_fds_[h].path \in DOMAIN open_paths_
          /\ open_paths_[open_fds_[h].path] = h

\* C6: after every operation a handle is a value of path->handle iff it is a key
\* of handle->state, no two paths map to the same handle, and each state's stored
\* path is the key that maps to its handle.
C6_TablesInverse == halted = "no" => TablesInverse

PathStat(path) ==
    IF path \in DOMAIN open_paths_
    THEN LET r == statfd(open_paths_[path]) IN [rc |-> r.rc, size |-> r.size]
    ELSE IF dir[path] = NoInode THEN [rc |-> -ENOENT, size |-> 0]
    ELSE [rc |-> 0, size |-> Len(inodes[dir[path]])]
HandleStat(h) == LET r == statfd(h) IN [rc |-> r.rc, size |-> r.size]

\* C8: after rename(old, new) returns 0 for an open path old, path->handle has no
\* entry for old, the same handle and state answer for new with stored path new,
\* getattr(old) yields -ENOENT, and getattr(new) and fgetattr(handle) report the
\* same file with the same size.
C8_RenameMovesOpenState ==
    (last.op = "rename" /\ last.rc = 0 /\ last.h # NoHandle
     /\ last.path # last.path2 /\ halted = "no") =>
        /\ last.path \notin DOMAIN open_paths_
        /\ last.path2 \in DOMAIN open_paths_
        /\ open_paths_[last.path2] = last.h
        /\ last.h \in DOMAIN open_fds_
        /\ open_fds_[last.h].path = last.path2
        /\ PathStat(last.path).rc = -ENOENT
        /\ PathStat(last.path2) = HandleStat(last.h)

\* C9: a successful create or open of a path that is already in path->handle
\* registers no new state and returns the existing handle; otherwise it registers
\* a fresh state with reference count 1; so no two states have the same path.
C9_OneStatePerPath ==
    /\ (last.op \in {"create", "open"} /\ last.rc = 0 /\ halted = "no") =>
          IF last.shared THEN ~last.registered
          ELSE last.registered /\ open_fds_[last.h].references = 1
    /\ \A g, h \in DOMAIN open_fds_ : open_fds_[g].path = open_fds_[h].path => g = h

RECURSIVE SumReferences(_, _)
SumReferences(fds, hs) ==
    IF hs = {} THEN 0
    ELSE LET h == MinOf(hs) IN fds[h].references + SumReferences(fds, hs \ {h})

InPaths(m, h) == \E p \in DOMAIN m : m[p] = h

\* C10: the reference counts of the registered states add up to the successful
\* create/open calls minus the releases of registered handles, every registered
\* state has a count >= 1, a state leaves the two tables exactly when a release
\* brings its count to 0, and a release of an unregistered handle changes nothing.
C10_ReferenceCounts ==
    [][halted' = "no" =>
        /\ SumReferences(open_fds_', DOMAIN open_fds_') = live'
        /\ \A h \in DOMAIN open_fds_' : open_fds_'[h].references >= 1
        /\ \A h \in DOMAIN open_fds_ :
              LET final == /\ last'.op = "release" /\ last'.h = h
                           /\ open_fds_[h].references = 1
              IN  /\ h \notin DOMAIN open_fds_' <=> final
                  /\ InPaths(open_paths_, h) =>
                        (~InPaths(open_paths_', h) <=> final)
        /\ (last'.op = "release" /\ last'.h \notin DOMAIN open_fds_) =>
              /\ open_fds_' = open_fds_
              /\ open_paths_' = open_paths_
    ]_vars

\* C11: the handles of newly registered states are strictly increasing: a state
\* registered by create or open gets the value of the counter, which no state
\* registered before has (all of them are below it), the counter then moves past
\* it and never goes back, and a handle that stays registered keeps its state
\* (same descriptor, same flags), so no handle value is ever given out twice,
\* also after its state has been released.
C11_HandlesNeverReused ==
    [][/\ next_' >= next_
       /\ \A h \in DOMAIN open_fds_ : h < next_
       /\ (last'.op \in {"create", "open"} /\ last'.registered) =>
             /\ last'.h = next_
             /\ last'.h \notin DOMAIN open_fds_
             /\ next_' = next_ + 1
             /\ DOMAIN open_fds_' = DOMAIN open_fds_ \cup {last'.h}
       /\ \A h \in DOMAIN open_fds_ \cap DOMAIN open_fds_' :
             /\ open_fds_'[h].fd.ino = open_fds_[h].fd.ino
             /\ open_fds_'[h].flags = open_fds_[h].flags
    ]_vars

\* a state is registered under handle 1 after the state of handle 0 was released
C11_Witness ==
    /\ last.op \in {"create", "open"} /\ last.registered /\ last.h = 1
    /\ DOMAIN open_fds_ = {1}
    /\ next_ = 2

\* what a flat array a delivers to read(n, offset, .)
FlatRead(a, n, offset) ==
    IF offset < Len(a) THEN SubSeq(a, offset + 1, Min2(offset + n, Len(a))) ELSE <<>>

\* C12: after any sequence of writes on a fresh page buffer, every write has
\* returned, size() is the length of the flat zero-initialised array the same
\* writes produce, and every read(n, offset, .) delivers the bytes of that array.
C12_FlatArray ==
    /\ halted = "no"
    /\ pb.size = Len(flat)
    /\ \A n \in 0..(MaxSize + 1), offset \in 0..MaxSize :
          PBRead(pb, n, offset) = FlatRead(flat, n, offset)

\* C13: for every page buffer reached by writes, resizes and clears, splice
\* reads no memory outside the allocations, delivers exactly the bytes
\* read(size(), 0, .) returns and returns size(); on an empty buffer it
\* delivers nothing and returns 0.
C13_SpliceIsRead ==
    halted = "no" =>
        /\ ~PBSplice(pb).ub
        /\ PBSplice(pb).out = PBRead(pb, pb.size, 0)
        /\ PBSplice(pb).ret = pb.size

\* the bytes write calls stored through handle h, when they cover the offsets
\* from 0 on without a gap; <<>> otherwise
ContiguousWrites(h) ==
    LET w == hist[h].bytes
        k == Cardinality({j \in 1..MaxSize : w[j] # 0})
    IN  IF \A j \in 1..k : w[j] # 0 THEN SubSeq(w, 1, k) ELSE <<>>

\* what a fresh open of a file holding content and a read of the whole file
\* return in read-write mode: the return code and the bytes
FreshRead(content) ==
    LET Served(l) ==
            IF l.hang \/ l.ret # 0
            THEN [rc |-> -l.ret, data |-> <<>>, hang |-> l.hang]
            ELSE [rc |-> l.st.buffer.size, hang |-> FALSE,
                  data |-> PBRead(l.st.buffer, l.st.buffer.size, 0)]
    IN  Served(load_buffer(
            [NewInternal([ino |-> NoInode, pos |-> 0, wr |-> TRUE, append |-> FALSE],
                         [creat |-> FALSE, append |-> FALSE], "")
               EXCEPT !.buffer_set = open_buffer_set(Len(content))],
            content))

\* the last release of handle h happens in this step
LastRelease(h) ==
    /\ last'.op = "release" /\ last'.h = h
    /\ h \in DOMAIN open_fds_ /\ h \notin DOMAIN open_fds_'
    /\ halted' = "no"
    /\ last'.flush.ran => last'.flush.exit0

\* C14: in read-write mode, when a file with plaintext P1 is opened with
\* O_APPEND, P2 is written through that handle and the handle is released for
\* the last time, a fresh open and a full read yield P1 followed by P2, whatever
\* getattr and fgetattr calls were made on the handle in between.
C14_AppendConcatenates ==
    [][\A h \in DOMAIN open_fds_ :
          (/\ read_ /\ LastRelease(h)
           /\ hist[h].by = "nonempty" /\ ~hist[h].cut
           /\ open_fds_[h].flags.append
           /\ sealed[open_fds_[h].fd.ino] # <<>>
           /\ ContiguousWrites(h) # <<>>)
          => FreshRead(inodes'[open_fds_[h].fd.ino]).data
                = sealed[open_fds_[h].fd.ino] \o ContiguousWrites(h)
    ]_vars


\* ---- read-write mode with truncation by path ----
\* the sizes truncate(path, .) and ftruncate are called with
CutSizes == {-1, 1, PageSize}

NextRWT ==
    \/ \E fl \in RWCreateFlags : CreateClosed(IOPath, fl)
    \/ \E fl \in RWOpenFlags : Open(IOPath, fl)
    \/ \E h \in Handles, ok \in BOOLEAN : Release(h, ok, 0, FALSE)
    \/ \E h \in Handles, c \in WriteCalls, b \in Bytes : Write(h, c[1], c[2], b)
    \/ \E h \in Handles : Read(h, MaxSize, 0)
    \/ \E h \in Handles : Fgetattr(h)
    \/ \E h \in Handles, o \in CutSizes : Ftruncate(h, o)
    \/ \E o \in CutSizes, ok \in BOOLEAN : Truncate(IOPath, o, ok, 0, FALSE)

SpecRWT == InitRW /\ [][NextRWT]_vars


\* the first k bytes of the plaintext P the file behind handle h had before
\* ftruncate(h, k), when the history determines them and k <= |P|: the bytes
\* written through a creating handle, the sealed plaintext for a handle opened
\* on the file and not written through; <<>> otherwise
CutPlain(h, k) ==
    IF hist[h].by = "created"
    THEN IF Len(ContiguousWrites(h)) = k THEN ContiguousWrites(h) ELSE <<>>
    ELSE IF hist[h].by = "nonempty" /\ hist[h].bytes = NoWrites
            /\ k <= Len(sealed[open_fds_[h].fd.ino])
    THEN SubSeq(sealed[open_fds_[h].fd.ino], 1, k)
    ELSE <<>>

\* C15: in read-write mode, for a file with plaintext P and 0 < k <= |P|:
\* once ftruncate(handle, k) has returned 0 fgetattr reports size k, and when
\* the handle is then released for the last time, or when truncate(path, k) on
\* the closed path returns 0, a fresh open and a full read yield exactly the
\* first k bytes of P.
C15_TruncateKeepsPrefix ==
    [][/\ \A h \in DOMAIN open_fds_ :
            (/\ read_ /\ last.op = "ftruncate" /\ last.h = h /\ last.rc = 0
             /\ last.size > 0 /\ CutPlain(h, last.size) # <<>>)
            => /\ statfd(h).rc = 0 /\ statfd(h).size = last.size
               /\ LastRelease(h) =>
                     FreshRead(inodes'[open_fds_[h].fd.ino]).data
                        = CutPlain(h, last.size)
       /\ \A k \in 1..(IF dir[IOPath] = NoInode THEN 0
                        ELSE Len(sealed[dir[IOPath]])) :
            (/\ read_ /\ IOPath \notin DOMAIN open_paths_
             /\ Truncate(IOPath, k, TRUE, 0, FALSE) /\ last'.rc = 0)
            => FreshRead(inodes'[dir[IOPath]]).data
                  = SubSeq(sealed[dir[IOPath]], 1, k)
    ]_vars


\* the mount's tables, the states with their buffers and dirty flags, and the
\* backing files stay as they are
StoreUnchanged == UNCHANGED <<dir, inodes, open_paths_, open_fds_, next_>>

access_refused(path, am) ==
    IF HasBit(am, R_OK) /\ ~read_
    THEN IF path \notin DOMAIN open_paths_ THEN EACCES
         ELSE IF open_paths_[path] \notin DOMAIN open_fds_ THEN EIO
         ELSE IF open_fds_[open_paths_[path]].flags.append THEN EACCES
         ELSE IF ~open_fds_[open_paths_[path]].flags.creat THEN EACCES
         ELSE 0
    ELSE 0

Access(path, am) ==
    /\ halted = "no"
    /\ last' = [Result("access", IF access_refused(path, am) # 0
                                 THEN -access_refused(path, am)
                                 ELSE -faccessat(path, am))
                  EXCEPT !.path = path, !.mode = am]
    /\ UNCHANGED <<read_, dir, inodes, next_, open_paths_, open_fds_, hist, live,
                   halted, asserted>>
    /\ Sealing
    /\ UNCHANGED <<pending, meta, euid, pb, flat, envvars>>

\* ::fchmodat(root_, relpath, mode, 0)
Chmod(path, mode) ==
    /\ halted = "no"
    /\ IF dir[path] = NoInode
       THEN /\ last' = [Result("chmod", -ENOENT) EXCEPT !.path = path, !.mode = mode]
            /\ UNCHANGED meta
       ELSE IF euid # Root /\ meta[dir[path]].uid # euid
       THEN /\ last' = [Result("chmod", -EPERM) EXCEPT !.path = path, !.mode = mode]
            /\ UNCHANGED meta
       ELSE /\ meta' = [meta EXCEPT ![dir[path]].mode = mode]
            /\ last' = [Result("chmod", 0) EXCEPT !.path = path, !.mode = mode]
    /\ UNCHANGED <<read_, dir, inodes, next_, open_paths_, open_fds_, hist, live,
                   halted, asserted>>
    /\ Sealing
    /\ UNCHANGED <<pending, euid, pb, flat, envvars>>

\* ::fchownat(root_, relpath, u, g, 0): a privileged process may give the entry
\* to anyone, another one may only keep the owner and name its own group
Chown(path, u, g) ==
    /\ halted = "no"
    /\ IF dir[path] = NoInode
       THEN /\ last' = [Result("chown", -ENOENT) EXCEPT !.path = path]
            /\ UNCHANGED meta
       ELSE IF euid # Root
               /\ ~(meta[dir[path]].uid = euid /\ u = euid /\ g = euid)
       THEN /\ last' = [Result("chown", -EPERM) EXCEPT !.path = path]
            /\ UNCHANGED meta
       ELSE /\ meta' = [meta EXCEPT ![dir[path]].uid = u, ![dir[path]].gid = g]
            /\ last' = [Result("chown", 0) EXCEPT !.path = path]
    /\ UNCHANGED <<read_, dir, inodes, next_, open_paths_, open_fds_, hist, live,
                   halted, asserted>>
    /\ Sealing
    /\ UNCHANGED <<pending, euid, pb, flat, envvars>>


\* the modes chmod is called with: 0400, 0644, 0200
ChmodModes == {256, 420, 128}
Owners == {Root, User}
AccessCalls == {R_OK, W_OK, R_OK + W_OK, W_OK + X_OK}

MetaCreateFlags == {fl \in CreateFlags : fl.acc = "RDWR" /\ ~fl.excl}
MetaOpenFlags == {fl \in OpenFlags : fl.acc = "RDWR" /\ ~fl.trunc}

InitMeta == BootAs(FALSE, Owners)

NextMeta ==
    \/ \E fl \in MetaCreateFlags : Create(IOPath, fl)
    \/ \E fl \in MetaOpenFlags : Open(IOPath, fl)
    \/ \E h \in Handles : Release(h, TRUE, 0, FALSE)
    \/ \E m \in ChmodModes : Chmod(IOPath, m)
    \/ \E u \in Owners, g \in Owners : Chown(IOPath, u, g)
    \/ \E am \in AccessCalls : Access(IOPath, am)
    \/ Getattr(IOPath)
    \/ Unlink(IOPath)

SpecMeta == InitMeta /\ [][NextMeta]_vars


\* some registered state is open on path with O_CREAT and without O_APPEND
OpenCreated(path) ==
    \E h \in DOMAIN open_fds_ :
        /\ open_fds_[h].path = path
        /\ open_fds_[h].flags.creat /\ ~open_fds_[h].flags.append

\* C17: in write-only mode access(path, mode) with R_OK in mode returns -EACCES
\* unless the path is open with a state whose flags contain O_CREAT and not
\* O_APPEND; in every other case, and always in read-write mode, it returns the
\* result of the backing store's check (-ENOENT for a missing path).
C17_AccessPolicy ==
    last.op = "access" =>
        last.rc = IF ~read_ /\ HasBit(last.mode, R_OK) /\ ~OpenCreated(last.path)
                  THEN -EACCES
                  ELSE -faccessat(last.path, last.mode)


\* m & 07333: m without S_IRUSR (0400), S_IRGRP (0040) and S_IROTH (0004)
NoReadBits(m) ==
    m - (IF HasBit(m, 256) THEN 256 ELSE 0) - (IF HasBit(m, 32) THEN 32 ELSE 0)
      - (IF HasBit(m, 4) THEN 4 ELSE 0)

\* getattr(path) has returned 0 right after chmod(path, m) returned 0
GetattrAfterChmod ==
    /\ last.op = "chmod" /\ last.rc = 0
    /\ last'.op = "getattr" /\ last'.rc = 0 /\ last'.path = last.path

\* C18 as stated: after chmod(path, m) returns 0 on a path, open or closed,
\* getattr(path) reports the permission bits m in read-write mode and m with
\* the three read bits cleared in write-only mode.
C18_ChmodThenGetattr ==
    [][GetattrAfterChmod =>
          last'.mode = IF read_ THEN last.mode ELSE NoReadBits(last.mode)
    ]_vars

\* C18, amended: the read bits are cleared only for a path that has no entry
\* in path->handle (write-only mode); for a path that has one, getattr reports
\* the bits of the entry the open state's descriptor refers to, unmasked in
\* both modes; they are m when that entry is the one at path.
C18_MaskedWhenClosed ==
    [][GetattrAfterChmod =>
          IF last.path \notin DOMAIN open_paths_
          THEN last'.mode = IF read_ THEN last.mode ELSE NoReadBits(last.mode)
          ELSE /\ last'.mode = meta[open_fds_[open_paths_[last.path]].fd.ino].mode
               /\ open_fds_[open_paths_[last.path]].fd.ino = dir[last.path]
                     => last'.mode = last.mode
    ]_vars

\* getattr has reported the mode 0644, which only a chmod sets, with its read
\* bits for an open path in write-only mode
C18_Witness ==
    /\ ~read_ /\ last.op = "getattr" /\ last.rc = 0
    /\ last.path \in DOMAIN open_paths_ /\ last.mode = 420


\* C19: chown(path, uid, gid) with uid = 0 or gid = 0 on an existing path
\* returns -EPERM and leaves the ownership of the backing entry as it is,
\* whatever the privileges of the filesystem process.
C19_ChownToRootRefused ==
    [][\A u \in Owners, g \in Owners :
          (/\ u = Root \/ g = Root
           /\ dir[IOPath] # NoInode
           /\ Chown(IOPath, u, g))
          => last'.rc = -EPERM /\ meta' = meta
    ]_vars


\* C20: an operation returns 0 or, for read and write, a byte count on
\* success and a negative errno on failure: no other operation returns a
\* positive value, and truncate(path, k > 0) whose flush failed returns a
\* negative one.
C20_NegativeErrno ==
    /\ last.rc > 0 => last.op \in {"read", "write"}
    /\ (last.op = "truncate" /\ last.flush.ran /\ ~last.flush.exit0) => last.rc < 0


\* C21: read and write return -EBADF when the handle is not registered, and
\* otherwise -EINVAL when the offset is negative; in neither case is any
\* state's buffer, buffer_set flag or dirty flag modified.
C21_BadHandleBadOffset ==
    [][\A h \in Handles, o \in {-1, 0} :
          (\/ Read(h, MaxSize, o)
           \/ \E c \in WriteCalls, b \in Bytes : c[2] = o /\ Write(h, c[1], o, b))
          => /\ h \notin DOMAIN open_fds_
                  => last'.rc = -EBADF /\ open_fds_' = open_fds_
             /\ (h \in DOMAIN open_fds_ /\ o < 0)
                  => last'.rc = -EINVAL /\ open_fds_' = open_fds_
    ]_vars


\* ---- the descriptors a child of the filesystem process is started with ----
FreeFds == Fds \ DOMAIN fdt
OpenOf(kind) == {fd \in DOMAIN fdt : fdt[fd].kind = kind}

\* ::openat(root_, relpath, O_CLOEXEC | ...) of create and open ("file") and of
\* opendir ("dir")
OpenatFd(kind) ==
    /\ FreeFds # {}
    /\ fdt' = (MinOf(FreeFds) :> [kind |-> kind, cloexec |-> open_cloexec]) @@ fdt
    /\ UNCHANGED child
    /\ UNCHANGED <<fsvars, pb, flat, halted, asserted, cfgvars>>

\* internal::close of the state that owns fd: a dirty buffer is piped through
\* the encryptor, whose stdout is fd, then the descriptor is closed
CloseFd(fd, dirty) ==
    /\ fd \in OpenOf("file")
    /\ dirty => Cardinality(FreeFds) >= 4
    /\ child' = IF dirty THEN ChildAtExec(fdt, -1, fd) ELSE child
    /\ fdt' = Close(fdt, fd)
    /\ UNCHANGED <<fsvars, pb, flat, halted, asserted, cfgvars>>

\* asymmetricfs::releasedir
ClosedirFd(fd) ==
    /\ fd \in OpenOf("dir")
    /\ fdt' = Close(fdt, fd)
    /\ UNCHANGED child
    /\ UNCHANGED <<fsvars, pb, flat, halted, asserted, cfgvars>>

\* internal::load_buffer of the state that owns fd: the decryptor reads the
\* descriptor itself when the file is a single block, a pipe otherwise
LoadFd(fd, single) ==
    /\ fd \in OpenOf("file")
    /\ Cardinality(FreeFds) >= 4
    /\ child' = ChildAtExec(fdt, IF single THEN fd ELSE -1, -1)
    /\ UNCHANGED fdt
    /\ UNCHANGED <<fsvars, pb, flat, halted, asserted, cfgvars>>

NextFD ==
    \/ \E kind \in {"file", "dir"} : OpenatFd(kind)
    \/ \E fd \in Fds, dirty \in BOOLEAN : CloseFd(fd, dirty)
    \/ \E fd \in Fds : ClosedirFd(fd)
    \/ \E fd \in Fds, single \in BOOLEAN : LoadFd(fd, single)

SpecFD == InitPB /\ [][NextFD]_vars

Thrown == -1000
RecipientLists == {<<"alice">>, <<"alice", "bob">>}

\* !(open_fds_.empty())
has_open_files_never(fds) == FALSE

has_open_files(fds) == DOMAIN fds # {}

\* asymmetricfs::set_recipients
SetRecipients(r) ==
    /\ halted = "no"
    /\ IF has_open_files(open_fds_)
       THEN /\ last' = Result("set_recipients", Thrown)
            /\ UNCHANGED recipients_
       ELSE /\ recipients_' = r
            /\ last' = Result("set_recipients", 0)
    /\ UNCHANGED <<read_, dir, inodes, next_, open_paths_, open_fds_, hist, live,
                   halted, asserted>>
    /\ Sealing
    /\ UNCHANGED <<pending, meta, euid, pb, flat, fdvars, open_dirs_, section, sub>>

NextCfg ==
    \/ \E r \in RecipientLists : SetRecipients(r)
    \/ \E p \in Paths, fl \in MTCreateFlags : Create(p, fl)
    \/ \E p \in Paths, fl \in MTOpenFlags : Open(p, fl)
    \/ \E h \in Handles : Release(h, TRUE, 0, FALSE)
    \/ \E h \in Handles : Write(h, 1, 0, 1)

SpecCfg == Init /\ [][NextCfg]_vars

\* C23: set_recipients called while at least one open-file state is registered
\* throws and leaves the recipient list unchanged; it takes effect exactly when
\* no handle is open.
C23_RecipientsFixedWhileOpen ==
    [][\A r \in RecipientLists :
          SetRecipients(r) =>
             IF DOMAIN open_fds_ # {}
             THEN last'.rc = Thrown /\ recipients_' = recipients_
             ELSE last'.rc = 0 /\ recipients_' = r
    ]_vars

\* a change of a list set earlier was refused while a written file was open
C23_Witness ==
    /\ last.op = "set_recipients" /\ last.rc = Thrown
    /\ recipients_ # <<>>
    /\ \E h \in DOMAIN open_fds_ : open_fds_[h].dirty


\* ---- operations delivered on several threads ----
MaxDirs == 2
\* the DIR pointers fdopendir can return
DirHandles == 1..MaxDirs

\* threads that are inside a handler, and the one that holds mx_
Inside == DOMAIN section
Holders == {t \in Inside : section[t].locked}
Using(table) == {t \in Inside : table \in section[t].uses}
mxframe == <<fsvars, pb, flat, halted, asserted, fdvars, recipients_, sub>>

\* scoped_lock l(mx_): the calling thread waits until no thread holds mx_;
\* from here on the handler works on open_paths_, open_fds_ and the states
Lock(t, op) ==
    /\ t \notin Inside
    /\ Holders = {}
    /\ (op = "create") = (t \in DOMAIN pending)
    /\ section' = (t :> [op |-> op, locked |-> TRUE,
                         uses |-> {"open_paths_", "open_fds_"}, fh |-> 0])
                  @@ section
    /\ UNCHANGED <<mxframe, open_dirs_>>

\* the end of the scope of l
Unlock(t) ==
    /\ t \in Holders
    /\ section' = [u \in Inside \ {t} |-> section[u]]
    /\ UNCHANGED <<mxframe, open_dirs_>>

\* the thread t is in the handler op, past its scoped_lock
Holds(t, op) == t \in Holders /\ section[t].op = op

\* asymmetricfs::opendir up to fdopendir: no lock is taken; d is the new stream
OpendirOpen(t, d) ==
    /\ t \notin Inside /\ t \notin DOMAIN pending
    /\ d \notin open_dirs_
    /\ \A u \in Inside : section[u].op = "opendir" => section[u].fh # d
    /\ section' = (t :> [op |-> "opendir", locked |-> FALSE,
                         uses |-> {"open_dirs_"}, fh |-> d]) @@ section
    /\ UNCHANGED <<mxframe, open_dirs_>>

\* open_dirs_[info->fh] = relpath. With another thread in open_dirs_ at the
\* same time the insertion is a data race: the entry may be lost
OpendirStore(t) ==
    /\ t \in Inside /\ section[t].op = "opendir"
    /\ open_dirs_' \in
          {open_dirs_ \cup {section[t].fh}} \cup
          (IF Using("open_dirs_") # {t} THEN {open_dirs_} ELSE {})
    /\ section' = [u \in Inside \ {t} |-> section[u]]
    /\ UNCHANGED mxframe

\* asymmetricfs::readdir: open_dirs_.find(info->fh) without a lock; the entry
\* found is used until the handler returns
Readdir(t, d) ==
    /\ t \notin Inside /\ t \notin DOMAIN pending
    /\ section' = (t :> [op |-> "readdir", locked |-> FALSE,
                         uses |-> {"open_dirs_"},
                         fh |-> IF d \in open_dirs_ THEN d ELSE -EBADF])
                  @@ section
    /\ UNCHANGED <<mxframe, open_dirs_>>

ReaddirReturn(t) ==
    /\ t \in Inside /\ section[t].op = "readdir"
    /\ section' = [u \in Inside \ {t} |-> section[u]]
    /\ UNCHANGED <<mxframe, open_dirs_>>

\* asymmetricfs::releasedir up to closedir: no lock is taken
ReleasedirClose(t, d) ==
    /\ t \notin Inside /\ t \notin DOMAIN pending
    /\ d \in open_dirs_
    /\ \A u \in Inside : section[u].op = "releasedir" => section[u].fh # d
    /\ section' = (t :> [op |-> "releasedir", locked |-> FALSE,
                         uses |-> {"open_dirs_"}, fh |-> d]) @@ section
    /\ UNCHANGED <<mxframe, open_dirs_>>

\* open_dirs_.erase(info->fh)
ReleasedirErase(t) ==
    /\ t \in Inside /\ section[t].op = "releasedir"
    /\ open_dirs_' \in
          {open_dirs_ \ {section[t].fh}} \cup
          (IF Using("open_dirs_") # {t} THEN {open_dirs_} ELSE {})
    /\ section' = [u \in Inside \ {t} |-> section[u]]
    /\ UNCHANGED mxframe

\* the operations FUSE delivers on its threads: the handlers with a
\* scoped_lock run their table accesses between Lock and Unlock
NextMX ==
    \/ \E t \in Threads, op \in {"create", "open", "release"} : Lock(t, op)
    \/ \E t \in Threads : Unlock(t)
    \/ \E t \in Threads, fl \in MTCreateFlags :
          t \notin Inside /\ CreateOpenat(t, IOPath, fl)
    \/ \E t \in Threads : Holds(t, "create") /\ CreateRegister(t)
    \/ \E t \in Threads, fl \in MTOpenFlags : Holds(t, "open") /\ Open(IOPath, fl)
    \/ \E t \in Threads, h \in Handles :
          Holds(t, "release") /\ Release(h, TRUE, 0, FALSE)
    \/ \E t \in Threads, d \in DirHandles : OpendirOpen(t, d)
    \/ \E t \in Threads : OpendirStore(t)
    \/ \E t \in Threads, d \in DirHandles : Readdir(t, d)
    \/ \E t \in Threads : ReaddirReturn(t)
    \/ \E t \in Threads, d \in DirHandles : ReleasedirClose(t, d)
    \/ \E t \in Threads : ReleasedirErase(t)

SpecMX == Init /\ [][NextMX]_vars

\* C24: every thread that is reading or writing a handle table or a state
\* holds mx_, so no two threads are in the same table at the same time.
C24_TablesUnderMutex ==
    /\ \A t \in Inside : section[t].uses # {} => section[t].locked
    /\ \A t, u \in Inside : t # u => section[t].uses \cap section[u].uses = {}


\* ---- rename there and back ----
\* the directory, path->handle and handle->state (with every stored path)
Restored(S) ==
    /\ S.dir = dir /\ S.inodes = inodes
    /\ S.open_paths_ = open_paths_ /\ S.open_fds_ = open_fds_

\* C25: for a path B that neither exists nor is open, rename(A, B) followed by
\* rename(B, A) leaves the directory, path->handle, handle->state and every
\* stored path as they were, whether A is open, closed or missing.
C25_RenameRoundTrip ==
    \A A \in Paths, B \in Paths :
        (dir[B] = NoInode /\ B \notin DOMAIN open_paths_)
        => Restored(renamed(renamed(Tables, A, B), B, A))

\* a file that is open was renamed, and the path it left is free again
C25_Witness ==
    /\ last.op = "rename" /\ last.rc = 0 /\ last.h \in DOMAIN open_fds_
    /\ dir[last.path] = NoInode /\ last.path \notin DOMAIN open_paths_
    /\ open_fds_[last.h].path = last.path2
    /\ renamed(Tables, last.path2, last.path).open_paths_ # open_paths_


\* ---- opening files the backing permissions protect ----
\* rw-------, r--------, -w-------, ---------
AccModes == {384, 256, 128, 0}
AccFlags == {fl \in OpenFlags \cup CreateFlags : ~fl.append /\ ~fl.excl /\ ~fl.trunc}

NextAcc ==
    \/ \E fl \in AccFlags : fl.creat /\ Create(IOPath, fl)
    \/ \E fl \in AccFlags : ~fl.creat /\ Open(IOPath, fl)
    \/ \E h \in Handles : Release(h, TRUE, 0, FALSE)
    \/ \E h \in Handles : Write(h, 1, 0, 1)
    \/ \E m \in AccModes : Chmod(IOPath, m)
    \/ Unlink(IOPath)

SpecAcc == Init /\ [][NextAcc]_vars

\* what the claim expects of a backing open asked with flags fl: read-write
\* first, the flags as given after EACCES
TwoAttempts(path, fl) ==
    LET first == Openat(path, [fl EXCEPT !.acc = "RDWR"])
    IN  IF first.err = EACCES THEN Openat(path, fl) ELSE first

\* C26: in read-write mode a create, or an open of a path that is not open
\* yet, succeeds and registers a state whenever the backing open succeeds
\* read-write or, after EACCES, with the access mode asked for; otherwise it
\* returns the negated error and registers nothing.
C26_RetryOnEACCES ==
    [][\A fl \in AccFlags :
          (/\ read_
           /\ \/ fl.creat /\ Create(IOPath, fl)
              \/ ~fl.creat /\ IOPath \notin DOMAIN open_paths_ /\ Open(IOPath, fl))
          => IF TwoAttempts(IOPath, fl).err = 0
             THEN last'.rc = 0 /\ last'.registered
             ELSE /\ last'.rc = -TwoAttempts(IOPath, fl).err
                  /\ open_fds_' = open_fds_
    ]_vars


\* C27: a write of size 0 on a registered handle returns 0 and leaves the
\* state as it is (logical size, allocations, dirty flag); a release that
\* follows it on a clean handle starts no encryptor.
C27_EmptyWrite ==
    [][\A h \in DOMAIN open_fds_ :
          /\ (\E b \in Bytes : Write(h, 0, 0, b))
                => last'.rc = 0 /\ open_fds_' = open_fds_
          /\ (/\ last.op = "write" /\ last.rc = 0 /\ last.h = h
              /\ ~open_fds_[h].dirty
              /\ \E ok \in BOOLEAN, j \in Junk, cr \in BOOLEAN : Release(h, ok, j, cr))
                => ~last'.flush.ran
    ]_vars

\* an empty write was made on a clean handle
C27_Witness ==
    /\ last.op = "write" /\ last.rc = 0 /\ last.h \in DOMAIN open_fds_
    /\ ~open_fds_[last.h].dirty /\ open_fds_[last.h].buffer.size = 0


\* ---- the allocation map of a page buffer ----
\* C28: after any sequence of write, resize and clear every allocation of the
\* page buffer has a page-aligned base and a positive page-multiple size, and
\* the ranges [base, base + size) of the allocations are pairwise disjoint.
C28_AllocationsDisjoint ==
    /\ \A k \in DOMAIN pb.allocs :
          /\ is_page_multiple(k)
          /\ Len(pb.allocs[k]) > 0 /\ is_page_multiple(Len(pb.allocs[k]))
    /\ \A k \in DOMAIN pb.allocs, l \in DOMAIN pb.allocs :
          k < l => k + Len(pb.allocs[k]) <= l


\* C29: every write on a reachable page buffer ends after copying all its
\* bytes, and no assertion of the copy loop fails on the way.
C29_WriteTerminates == halted # "hang" /\ ~asserted


\* C30: bytes cut off by a shrinking resize never come back: when the logical
\* size of a page buffer grows, by resize or by a write that starts beyond the
\* old size, every offset between the old size and the new size that the call
\* did not write reads as zero.
C30_ShrunkBytesStayGone ==
    [][/\ \A n \in 0..MaxSize :
             (halted = "no" /\ n > pb.size /\ BufferResize(n))
             => \A j \in (pb.size + 1)..n : PBRead(pb', n, 0)[j] = 0
       /\ \A offset \in 0..MaxSize, n \in 1..MaxSize, b \in PBBytes :
             (halted = "no" /\ offset > pb.size /\ offset + n <= MaxSize
                 /\ BufferWrite(n, offset, b) /\ halted' = "no")
             => \A j \in (pb.size + 1)..offset : PBRead(pb', offset + n, 0)[j] = 0
    ]_vars


\* C31: on a page buffer a write of n > 0 bytes at offset sets the logical
\* size to the larger of the previous size and offset + n; a write of no bytes
\* changes neither size nor allocations; resize(n) sets the size to n; clear
\* sets it to 0 and drops every allocation.
C31_SizeAfterCalls ==
    [][/\ \A offset \in 0..MaxSize, n \in 0..MaxSize, b \in PBBytes :
             (offset + n <= MaxSize /\ BufferWrite(n, offset, b))
             => IF n = 0 THEN pb' = pb
                ELSE pb'.size = Max2(pb.size, offset + n)
       /\ \A n \in 0..MaxSize : BufferResize(n) => pb'.size = n
       /\ BufferClear => pb' = EmptyBuffer
    ]_vars


\* C32: a read of n bytes at offset on a page buffer delivers exactly
\* min(n, max(0, size - offset)) bytes, none when offset >= size, whatever the
\* allocations are; the destination beyond the bytes delivered is not written.
C32_ReadCount ==
    \A n \in 0..(MaxSize + 1), offset \in 0..(MaxSize + 1) :
        Len(PBRead(pb, n, offset)) =
            Min2(n, IF pb.size > offset THEN pb.size - offset ELSE 0)

\* a buffer with a hole between two allocations and a size inside the second
C32_Witness ==
    /\ halted = "no"
    /\ Cardinality(DOMAIN pb.allocs) = 2 /\ pb.size = MaxSize - 1
    /\ Len(PBRead(pb, MaxSize + 1, 1)) = MaxSize - 2


\* ---- page allocations that fail ----
\* what mmap still grants: nothing, one page, anything
Quotas == {0, PageSize, Unlimited}

\* page_buffer::write(n, offset, src) under a quota; std::bad_alloc leaves the
\* call where page_allocation is constructed
BufferWriteLimited(n, offset, b, lockable) ==
    /\ halted = "no"
    /\ LET Stored(w) ==
               /\ pb' = [allocs |-> w.allocs, size |-> w.size]
               /\ halted' = IF w.hang THEN "hang" ELSE "no"
               /\ asserted' = (asserted \/ w.asserted)
               /\ last' = Result("page_buffer::write",
                                 IF w.thrown THEN Thrown ELSE 0)
               /\ flat' = IF n = 0 \/ w.thrown THEN flat
                          ELSE [j \in 1..Max2(Len(flat), offset + n) |->
                                  IF j > offset /\ j <= offset + n THEN b
                                  ELSE IF j <= Len(flat) THEN flat[j] ELSE 0]
       IN  Stored(PBWriteLimited(pb, n, offset, Fill(n, b), lockable))
    /\ UNCHANGED <<read_, dir, inodes, next_, open_paths_, open_fds_, hist, sealed,
                   track, live, pending, meta, euid, envvars>>

\* asymmetricfs::write under a quota: the exception passes `dirty = true`
WriteLimited(h, n, offset, b, lockable) ==
    IF /\ h \in DOMAIN open_fds_ /\ ~write_is_empty(n) /\ offset >= 0
       /\ PBWriteLimited(open_fds_[h].buffer, n, offset, Fill(n, b), lockable).thrown
    THEN /\ halted = "no"
         /\ LET Stored(w) ==
                    /\ open_fds_' = [open_fds_ EXCEPT
                                       ![h].buffer = [allocs |-> w.allocs,
                                                      size |-> w.size]]
                    /\ asserted' = (asserted \/ w.asserted)
            IN  Stored(PBWriteLimited(open_fds_[h].buffer, n, offset, Fill(n, b),
                                      lockable))
         /\ last' = [Result("write", Thrown) EXCEPT !.h = h]
         /\ UNCHANGED <<read_, dir, inodes, next_, open_paths_, live, hist, halted>>
         /\ Sealing
         /\ UNCHANGED <<pending, meta, euid, pb, flat, envvars>>
    ELSE Write(h, n, offset, b)

OOMFlags == {fl \in CreateFlags : fl.acc = "WRONLY" /\ ~fl.append /\ ~fl.excl}

NextOOM ==
    \/ \E offset \in 0..MaxSize, q \in Quotas :
          \E n \in 0..(MaxSize - offset) : BufferWriteLimited(n, offset, 1, q)
    \/ BufferResize(1)
    \/ \E fl \in OOMFlags : CreateClosed(IOPath, fl)
    \/ \E h \in Handles, q \in Quotas, offset \in {0, PageSize} :
          \E n \in {1, MaxSize - offset} : WriteLimited(h, n, offset, 1, q)

SpecOOM == InitPB /\ [][NextOOM]_vars

\* the size of the allocation a write of n bytes at offset asks for first, 0
\* when the page of offset is the base of an allocation
Needs(buffer, n, offset) ==
    LET base == round_down_to_page(offset)
        later == {k \in DOMAIN buffer.allocs : k > base}
    IN  IF n = 0 \/ base \in DOMAIN buffer.allocs THEN 0
        ELSE IF later = {} THEN round_up_to_page(base + n) - base
        ELSE MinOf(later) - base

\* C33: a write for which the page allocation cannot be obtained raises
\* std::bad_alloc and leaves allocations, stored bytes and logical size of the
\* buffer as they were; at filesystem level the state, its dirty flag
\* included, is unchanged.
C33_FailedAllocation ==
    [][/\ last'.op = "page_buffer::write" =>
          \A offset \in 0..MaxSize, n \in 0..MaxSize, q \in Quotas :
             (/\ offset + n <= MaxSize /\ Needs(pb, n, offset) > q
              /\ BufferWriteLimited(n, offset, 1, q))
             => last'.rc = Thrown /\ pb' = pb
       /\ last'.op = "write" =>
          \A h \in DOMAIN open_fds_, offset \in 0..MaxSize, n \in 0..MaxSize,
             q \in Quotas :
             (/\ Needs(open_fds_[h].buffer, n, offset) > q
              /\ WriteLimited(h, n, offset, 1, q))
             => last'.rc = Thrown /\ open_fds_' = open_fds_
    ]_vars

\* a write on a handle that holds data was refused its second page
C33_Witness ==
    /\ last.op = "write" /\ last.rc = Thrown /\ last.h \in DOMAIN open_fds_
    /\ open_fds_[last.h].buffer.size > 0
    /\ pb.size > 0


\* what the backing directory may hold for a file when the filesystem is
\* mounted: one block, two blocks, and blocks the decryptor refuses
Refused == <<GARBAGE, END>>
LoadContents ==
    {Encrypt(<<1>>), Encrypt(<<1>>) \o Encrypt(<<1>>),
     Refused, Encrypt(<<1>>) \o Refused, Refused \o Encrypt(<<1>>)}

\* a read-write mount over a directory that holds one such file
InitLoad ==
    /\ read_ = TRUE
    /\ track = FALSE
    /\ dir = [p \in Paths |-> IF p = IOPath THEN 1 ELSE NoInode]
    /\ \E c \in LoadContents : inodes = [i \in Inodes |-> IF i = 1 THEN c ELSE <<>>]
    /\ next_ = 0
    /\ open_paths_ = [p \in {} |-> 0]
    /\ open_fds_ = [h \in {} |-> 0]
    /\ last = Result("init", 0)
    /\ halted = "no"
    /\ asserted = FALSE
    /\ hist = [h \in {} |-> 0]
    /\ sealed = [i \in Inodes |-> <<>>]
    /\ live = 0
    /\ pending = [t \in {} |-> 0]
    /\ meta = [i \in Inodes |-> [mode |-> NewFileMode, uid |-> User, gid |-> User]]
    /\ euid = User
    /\ pb = EmptyBuffer
    /\ flat = <<>>
    /\ fdt = InitialFds
    /\ child = NoChild
    /\ recipients_ = <<>>
    /\ open_dirs_ = {}
    /\ section = [t \in {} |-> 0]
    /\ sub = NoSubprocess

LoadFlags == {fl \in RWOpenFlags : ~fl.creat /\ ~fl.trunc}

NextLoad ==
    \/ \E fl \in LoadFlags : Open(IOPath, fl)
    \/ \E h \in Handles : Read(h, MaxSize, 0)
    \/ \E h \in Handles : Write(h, 1, 0, 1)
    \/ \E h \in Handles, o \in {0, 1} : Ftruncate(h, o)
    \/ \E h \in Handles : Fgetattr(h)
    \/ \E h \in Handles : Release(h, TRUE, 0, FALSE)

SpecLoad == InitLoad /\ [][NextLoad]_vars

\* ---- loads that fail ----
\* C34: whenever a read fails because load_buffer returned an error, the state
\* is left unpopulated (buffer_set false) with an empty buffer.
C34_FailedLoadLeavesNothing ==
    [][\A h \in DOMAIN open_fds_ :
          (/\ read_ /\ ~open_fds_[h].buffer_set
           /\ \E o \in {-1, 0} : Read(h, MaxSize, o)
           /\ last'.rc < 0 /\ halted' = "no")
          => /\ ~open_fds_'[h].buffer_set
             /\ open_fds_'[h].buffer = EmptyBuffer
    ]_vars


\* C35: the encryptor runs at most once per state, only when the state is
\* destroyed and only if it is dirty; the backing descriptor is closed exactly
\* once, at destruction; a release that leaves references keeps the state
\* open and flushes nothing; no other operation flushes or destroys a state
C35_FlushOnceAtDestruction ==
    [][/\ last'.flush.starts = (IF last'.flush.ran THEN 1 ELSE 0)
       /\ last'.flush.starts <= last'.flush.closes
       /\ last'.op = "release" /\ last'.h \in DOMAIN open_fds_ =>
            LET st == open_fds_[last'.h]
            IN  IF st.references > 1
                THEN /\ last'.flush = NoFlush
                     /\ last'.h \in DOMAIN open_fds_'
                     /\ open_fds_'[last'.h].dirty = st.dirty
                     /\ open_fds_'[last'.h].fd = st.fd
                     /\ inodes' = inodes
                ELSE /\ last'.flush.closes = 1
                     /\ last'.flush.ran = st.dirty
                     /\ last'.h \notin DOMAIN open_fds_'
       /\ last'.op = "truncate" =>
            /\ last'.flush.closes <= 1
            /\ DOMAIN open_fds_' = DOMAIN open_fds_
       /\ last'.op \notin {"release", "truncate"} =>
            /\ last'.flush = NoFlush
            /\ DOMAIN open_fds_ \subseteq DOMAIN open_fds_']_vars

\* truncate built a transient state, flushed it and closed its descriptor
C35_Witness ==
    /\ last.op = "truncate" /\ last.flush.ran
    /\ last.flush.starts = 1 /\ last.flush.closes = 1


\* ---- what a flush leaves in the backing file ----
\* c is a concatenation of complete armored blocks
RECURSIVE CompleteBlocks(_)
CompleteBlocks(c) ==
    \/ c = <<>>
    \/ \E k \in 2..Len(c) :
          /\ c[1] = BEGIN /\ c[k] = END
          /\ \A j \in 2..(k - 1) : c[j] < BEGIN
          /\ CompleteBlocks(SubSeq(c, k + 1, Len(c)))

\* C36: after every flush whose encryptor succeeded the backing file consists
\* only of complete armored blocks: without O_APPEND it is exactly the block
\* the encryptor produced from the buffer, with O_APPEND that block follows
\* the complete blocks the file held
C36_FlushLeavesCompleteBlocks ==
    [][/\ (/\ last'.op = "release" /\ last'.flush.ran /\ last'.flush.exit0
           /\ last'.h \in DOMAIN open_fds_
           /\ dir[open_fds_[last'.h].path] = open_fds_[last'.h].fd.ino)
          => LET st == open_fds_[last'.h]
             IN  IF st.fd.append
                 THEN inodes'[st.fd.ino] =
                          inodes[st.fd.ino] \o Encrypt(last'.flush.plain)
                 ELSE inodes'[st.fd.ino] = Encrypt(last'.flush.plain)
       /\ (/\ last'.op = "truncate" /\ last'.flush.ran /\ last'.flush.exit0)
          => inodes'[dir[last'.path]] = Encrypt(last'.flush.plain)
       /\ (last'.op \in {"release", "truncate"} /\ last'.flush.ran
              /\ last'.flush.exit0)
          => \A i \in Inodes : CompleteBlocks(inodes[i]) => CompleteBlocks(inodes'[i])
    ]_vars


\* ---- subprocess: a child behind two pipes ----
\* capacity of a pipe, in bytes
PipeCap == 1
\* bytes the child keeps between reading and writing them
HeldCap == 1
\* the largest write buffer and read buffer handed to communicate
MaxInput == 4
MaxOutput == 2
\* the most calls of wait on one object
MaxWaits == 3

subframe == <<fsvars, pb, flat, halted, asserted, fdvars, recipients_,
              open_dirs_, section>>

\* subprocess::subprocess(fd_in, -1, ...): stdout is a pipe the object owns;
\* stdin is a pipe it owns (fd_in < 0) or a file of flen bytes; the child is a
\* filter that will exit with code
Subprocess(piped, flen, code) ==
    /\ sub.pc = "none"
    /\ piped => flen = 0
    /\ sub' = [NoSubprocess EXCEPT !.pc = "idle", !.in_owned_ = piped,
                 !.out_owned_ = TRUE, !.in_open = piped, !.out_open = TRUE,
                 !.inq = flen, !.kid = "running", !.code = code,
                 !.call = "subprocess"]
    /\ UNCHANGED subframe

\* the child reads a byte from its standard input
ChildRead ==
    /\ sub.kid = "running" /\ sub.held < HeldCap /\ sub.inq > 0
    /\ sub' = [sub EXCEPT !.inq = @ - 1, !.held = @ + 1]
    /\ UNCHANGED subframe

\* the child writes a byte to its standard output; SIGPIPE ends it when the
\* read end is closed
ChildWrite ==
    /\ sub.kid = "running" /\ sub.held > 0
    /\ IF sub.out_open
       THEN /\ sub.outq < PipeCap
            /\ sub' = [sub EXCEPT !.held = @ - 1, !.outq = @ + 1]
       ELSE sub' = [sub EXCEPT !.kid = "exited", !.normal = FALSE]
    /\ UNCHANGED subframe

\* the child finds end of file on its standard input and exits
ChildExit ==
    /\ sub.kid = "running" /\ sub.held = 0 /\ sub.inq = 0 /\ ~sub.in_open
    /\ sub' = [sub EXCEPT !.kid = "exited"]
    /\ UNCHANGED subframe

\* while (read_remaining || write_remaining)
communicate_loop(s) ==
    IF s.read_remaining # 0 \/ s.write_remaining # 0
    THEN [s EXCEPT !.pc = "select"]
    ELSE [s EXCEPT !.pc = "idle", !.call = "communicate", !.ret = 0]

\* subprocess::communicate(read_buffer, &r, write_buffer, &w) up to its loop
Communicate(r, w) ==
    /\ sub.pc = "idle" /\ ~sub.finished_
    /\ sub' = IF ~sub.in_owned_ /\ w > 0
              THEN [sub EXCEPT !.call = "communicate", !.ret = EINVAL]
              ELSE communicate_loop([sub EXCEPT !.read_remaining = r,
                                                !.write_remaining = w])
    /\ UNCHANGED subframe

\* select on in_ for writing while bytes remain to be written and on out_ for
\* reading while room remains: returns once one of them is ready
Select ==
    /\ sub.pc = "select"
    /\ LET w == sub.write_remaining > 0 /\ sub.inq < PipeCap
           r == sub.read_remaining > 0 /\ (sub.outq > 0 \/ sub.kid # "running")
       IN  /\ w \/ r
           /\ sub' = [sub EXCEPT !.wready = w, !.rready = r, !.wrote = 0,
                                 !.pc = IF w THEN "write" ELSE "read"]
    /\ UNCHANGED subframe

\* write(in_, write_buffer, write_remaining) on the blocking pipe: another
\* byte goes into the pipe when it has room
WriteSome ==
    /\ sub.pc = "write" /\ sub.wrote < sub.write_remaining
    /\ sub.inq < PipeCap
    /\ sub' = [sub EXCEPT !.inq = @ + 1, !.wrote = @ + 1]
    /\ UNCHANGED subframe

\* the write returns when every byte is delivered; nothing remains, so the
\* write end is closed
WriteReturn ==
    /\ sub.pc = "write" /\ sub.wrote = sub.write_remaining
    /\ sub' = [sub EXCEPT !.write_remaining = 0, !.in_owned_ = FALSE,
                          !.in_open = FALSE, !.pc = "read"]
    /\ UNCHANGED subframe

\* a signal interrupts the write after some bytes: it returns the bytes
\* delivered so far and the rest remains to be written
WriteInterrupted ==
    /\ sub.pc = "write" /\ 0 < sub.wrote /\ sub.wrote < sub.write_remaining
    /\ sub' = [sub EXCEPT !.write_remaining = @ - sub.wrote, !.pc = "read"]
    /\ UNCHANGED subframe

\* read(out_, read_buffer, read_remaining) if out_ was ready, then the loop test
ReadSome ==
    /\ sub.pc = "read"
    /\ sub' = IF sub.read_remaining > 0 /\ sub.rready
              THEN IF sub.outq = 0
                   THEN [sub EXCEPT !.pc = "idle", !.call = "communicate", !.ret = 0]
                   ELSE LET n == Min2(sub.outq, sub.read_remaining)
                        IN  communicate_loop([sub EXCEPT !.outq = @ - n,
                                                         !.read_remaining = @ - n])
              ELSE communicate_loop(sub)
    /\ UNCHANGED subframe

\* if (finished_) { return 0; }
wait_again(s) == 0

\* subprocess::wait up to waitpid
Wait ==
    /\ sub.pc = "idle" /\ sub.waits < MaxWaits
    /\ sub' = IF sub.finished_
              THEN [sub EXCEPT !.call = "wait", !.ret = wait_again(sub),
                               !.closes = 0, !.reaps = 0, !.waits = @ + 1]
              ELSE [sub EXCEPT !.pc = "waitpid", !.waits = @ + 1,
                               !.in_open = @ /\ ~sub.in_owned_,
                               !.out_open = @ /\ ~sub.out_owned_,
                               !.closes = (IF sub.in_owned_ THEN 1 ELSE 0)
                                          + (IF sub.out_owned_ THEN 1 ELSE 0)]
    /\ UNCHANGED subframe

\* waitpid returns with the status of the child that has ended
WaitReturn ==
    /\ sub.pc = "waitpid" /\ sub.kid = "exited"
    /\ LET status == IF sub.normal THEN sub.code ELSE -1
       IN  sub' = [sub EXCEPT !.pc = "idle", !.kid = "reaped", !.finished_ = TRUE,
                              !.call = "wait", !.ret = status, !.reaps = 1,
                              !.first = status]
    /\ UNCHANGED subframe

\* subprocess::~subprocess once its wait has returned
Destroy ==
    /\ sub.pc = "idle" /\ sub.finished_ /\ sub.waits >= 2
    /\ sub' = NoSubprocess
    /\ UNCHANGED subframe

ParentStep == Select \/ WriteSome \/ WriteReturn \/ ReadSome \/ WaitReturn
ChildStep == ChildRead \/ ChildWrite \/ ChildExit

NextSub ==
    \/ \E piped \in BOOLEAN, flen \in 0..MaxInput, code \in {0, 1} :
          Subprocess(piped, flen, code)
    \/ \E r \in 0..MaxOutput, w \in 0..MaxInput : Communicate(r, w)
    \/ Wait
    \/ Destroy
    \/ WriteInterrupted
    \/ ParentStep
    \/ ChildStep

InitSub == Boot(FALSE) /\ read_

SpecSub == InitSub /\ [][NextSub]_vars

\* the scheduler runs the parent and the child whenever they can take a step;
\* nothing promises a signal
SpecSubFair == SpecSub /\ WF_vars(ParentStep) /\ WF_vars(ChildStep)

\* C37: communicate never deadlocks: with a streaming filter as the child and
\* bounded pipes every call of communicate that lets the child see the end of
\* its input (bytes remain to be written, after which the write end is
\* closed, or standard input is no open pipe) eventually returns
C37_CommunicateReturns ==
    (/\ sub.pc \in {"select", "write", "read"}
     /\ sub.write_remaining > 0 \/ ~sub.in_open)
        ~> (sub.pc = "idle")


\* the caller's read buffer is full, bytes remain to be written, both pipes and
\* the child are full: select waits on in_ alone and nothing can move
ReadBufferFullDeadlock ==
    /\ sub.pc = "select" /\ sub.read_remaining = 0 /\ sub.write_remaining > 0
    /\ sub.inq = PipeCap /\ sub.held = HeldCap /\ sub.outq = PipeCap
    /\ sub.kid = "running"


\* C38: wait may be called any number of times: only the first call closes
\* the owned pipe ends and reaps the child, every later call closes and reaps
\* nothing, and every call returns what the first returned (the child's exit
\* code, or -1 after abnormal termination)
C38_WaitIdempotent ==
    [][/\ (sub.pc = "waitpid" /\ sub'.pc = "idle")
          => /\ sub'.reaps = 1 /\ sub'.finished_
             /\ sub'.ret = (IF sub.normal THEN sub.code ELSE -1)
       /\ (sub.pc = "idle" /\ sub.finished_ /\ sub'.waits = sub.waits + 1)
          => /\ sub'.call = "wait"
             /\ sub'.closes = 0 /\ sub'.reaps = 0
             /\ sub'.kid = sub.kid
             /\ sub'.in_open = sub.in_open /\ sub'.out_open = sub.out_open
             /\ sub'.ret = sub.first
    ]_vars


\* ---- rename on several threads ----
\* asymmetricfs::rename from its scoped_lock to the return of ::renameat, on
\* thread t: a failed ::renameat returns at once, a successful one leaves the
\* table update to do
RenameBacking(t, oldpath, newpath) ==
    /\ halted = "no"
    /\ Holds(t, "rename") /\ section[t].fh = 0
    /\ LET r == renameat(dir, oldpath, newpath)
       IN  IF rename_fails(r.ret)
           THEN /\ RenameTo(renamed(Tables, oldpath, newpath), oldpath, newpath)
                /\ section' = [u \in Inside \ {t} |-> section[u]]
           ELSE /\ dir' = r.dir
                /\ inodes' = Reclaim(inodes, r.dir, open_fds_)
                /\ section' = [section EXCEPT ![t] =
                                 [op |-> "rename", locked |-> TRUE,
                                  uses |-> section[t].uses, fh |-> 1,
                                  oldpath |-> oldpath, newpath |-> newpath,
                                  ret |-> r.ret]]
                /\ UNCHANGED <<open_paths_, open_fds_, last>>
    /\ UNCHANGED <<read_, next_, hist, live, halted, asserted>>
    /\ Sealing
    /\ UNCHANGED <<pending, meta, euid, pb, flat, fdvars, recipients_,
                   open_dirs_, sub>>

\* the rest of asymmetricfs::rename on thread t: the table update, the return
\* and with it the end of the scope of the lock
RenameTables(t) ==
    /\ halted = "no"
    /\ t \in Inside /\ section[t].op = "rename" /\ section[t].fh = 1
    /\ LET r == rename_tables(Tables, section[t].oldpath, section[t].newpath)
       IN  /\ open_paths_' = r.open_paths_
           /\ open_fds_' = r.open_fds_
           /\ last' = [Result("rename", 0) EXCEPT !.path = section[t].oldpath,
                         !.path2 = section[t].newpath, !.h = r.h]
    /\ section' = [u \in Inside \ {t} |-> section[u]]
    /\ UNCHANGED <<dir, inodes, read_, next_, hist, live, halted, asserted>>
    /\ Sealing
    /\ UNCHANGED <<pending, meta, euid, pb, flat, fdvars, recipients_,
                   open_dirs_, sub>>

\* create, open and release next to rename, each handler on its own thread
NextRen ==
    \/ \E t \in Threads, op \in {"create", "open", "release", "rename"} : Lock(t, op)
    \/ \E t \in Threads :
          t \in Holders /\ section[t].op # "rename" /\ Unlock(t)
    \/ \E t \in Threads, fl \in MTCreateFlags :
          t \notin Inside /\ CreateOpenat(t, IOPath, fl)
    \/ \E t \in Threads : Holds(t, "create") /\ CreateRegister(t)
    \/ \E t \in Threads, p \in Paths, fl \in MTOpenFlags :
          Holds(t, "open") /\ Open(p, fl)
    \/ \E t \in Threads, h \in Handles :
          Holds(t, "release") /\ Release(h, TRUE, 0, FALSE)
    \/ \E t \in Threads, oldpath, newpath \in Paths :
          RenameBacking(t, oldpath, newpath)
    \/ \E t \in Threads : RenameTables(t)

InitRen == Boot(FALSE) /\ read_

SpecRen == InitRen /\ [][NextRen]_vars


\* thread t returns from rename in this step
RenameReturns(t) ==
    t \in Inside /\ section[t].op = "rename" /\ t \notin DOMAIN section'

\* the step changes path->handle, handle->state or a stored path
TablesChange == <<open_paths_, open_fds_>>' # <<open_paths_, open_fds_>>

\* C39: a rename whose backing rename fails returns the negated error and
\* leaves path->handle, handle->state and every stored path unchanged; a
\* rename changes the tables only after its backing rename succeeded, and
\* then it does move the entry of an open oldpath; from the backing rename to
\* the table update the thread holds mx_ and no other step changes the tables
C39_RenameFrame ==
    [][\A t \in Threads :
          /\ (RenameReturns(t) /\ section[t].fh = 0)
             => /\ last'.op = "rename" /\ last'.rc = -ENOENT
                /\ dir[last'.path] = NoInode
                /\ ~TablesChange /\ dir' = dir /\ inodes' = inodes
          /\ (RenameReturns(t) /\ section[t].fh = 1)
             => /\ section[t].ret = 0
                /\ last'.op = "rename" /\ last'.rc = 0
                /\ TablesChange = (section[t].oldpath \in DOMAIN open_paths_)
          /\ (t \in Inside /\ section[t].op = "rename")
             => /\ section[t].locked
                /\ Holders = {t}
                /\ TablesChange => RenameReturns(t)
    ]_vars

\* a rename of a missing path has failed while a file was open
C39_Witness ==
    /\ last.op = "rename" /\ last.rc = -ENOENT
    /\ open_paths_ # << >>
    /\ Inside = {}


\* ---- the populated flag of a fresh state ----
\* C40: right after a successful create or open that registers a fresh state,
\* buffer_set is true if and only if the backing file just opened has length 0
C40_PopulatedIffEmpty ==
    [][\A h \in Handles :
          (/\ h \notin DOMAIN open_fds_ /\ h \in DOMAIN open_fds_'
           /\ last'.op \in {"create", "open"} /\ last'.rc = 0)
          => open_fds_'[h].buffer_set = (inodes'[open_fds_'[h].fd.ino] = <<>>)
    ]_vars

=============================================================================
